---- MODULE Spec2Model ----
(***************************************************************************)
(* A model of vermouth, a small HTTP/1.x server on raw connections:        *)
(* the pattern matcher (matchRoute), the route table and middleware chain  *)
(* (Vermouth), and the response context (ctx).                             *)
(*                                                                         *)
(* Go strings are sequences of tokens: a token is one character, or a      *)
(* fixed piece of text that the code never looks inside ("GET", "\r\n").   *)
(***************************************************************************)
EXTENDS Integers, Sequences, FiniteSets, TLC

VARIABLES
    mPattern,   \* matchRoute: the pattern argument
    mPath,      \* matchRoute: the path argument
    mRes,       \* matchRoute: the result, or NotCalled
    ctx,        \* a response context (*ctx) with its connection
    calls,      \* the response methods called on ctx so far, with what they returned
    routes,        \* Vermouth.routes
    middlewares,   \* Vermouth.middlewares
    patternGroup,  \* Vermouth.patternGroup
    groupArg,      \* the prefix given to the last Group call, "" before any
    regs,          \* for each route, the registration call that stored it
    conns,         \* the connections: the state of the ServeHTTP call of each
    crashed,       \* the process has ended (a panic, or log.Fatal)
    mu,            \* Vermouth.mu: Free, or who holds it
    units,         \* concurrent ServeHTTP calls: position and locals of each
    ctxs,          \* the context objects (*ctx) by identity
    socks,         \* the connections (net.Conn) by identity
    reg,           \* a goroutine that registers while requests are served
    startPc,       \* Start: where the accept loop is
    startErr,      \* Start: what it returned
    statics,       \* the directory of each handler that Static installed
    reqBody,       \* ctx.body: the reader over the request body, or NoBody
    parses         \* the ParseJSON and ParseForm calls so far, with their results

concVars == <<mu, units, ctxs, socks, reg>>
startVars == <<startPc, startErr>>
bodyVars == <<reqBody, parses>>
extVars == <<concVars, startVars, statics, bodyVars>>
\* what the steps of concurrent ServeHTTP calls leave alone
aside == <<mPattern, mPath, mRes, ctx, calls, patternGroup, groupArg, regs, conns,
           startVars, statics, bodyVars>>
vars == <<mPattern, mPath, mRes, ctx, calls,
          routes, middlewares, patternGroup, groupArg, regs, conns, crashed,
          extVars>>
matchVars == <<mPattern, mPath, mRes>>
ctxVars == <<ctx, calls>>
tableVars == <<routes, middlewares, patternGroup, groupArg, regs>>
serverVars == <<routes, middlewares, patternGroup, groupArg, regs, conns, crashed>>

----------------------------------------------------------------------------
(* Bounds of the model *)

MaxPatLen == 5
MaxPathLen == 3
MaxCalls == 2       \* response methods called on one context
MaxOkWrites == 4    \* writes a failing connection accepts before it fails
MaxRoutes == 3      \* registered routes
MaxMiddlewares == 2 \* registered middlewares
MaxOldRoutes == 1   \* routes registered with the earlier server

----------------------------------------------------------------------------
(* package strings *)

RECURSIVE IndexOf(_, _, _)
\* the first position >= i of token d in s, 0 when there is none
IndexOf(s, d, i) ==
    IF i > Len(s) THEN 0
    ELSE IF s[i] = d THEN i
    ELSE IndexOf(s, d, i + 1)

RECURSIVE Split(_, _)
\* strings.Split(s, d): never empty, Split("", d) = [""]
Split(s, d) ==
    LET i == IndexOf(s, d, 1)
    IN  IF i = 0 THEN <<s>>
        ELSE <<SubSeq(s, 1, i - 1)>> \o Split(SubSeq(s, i + 1, Len(s)), d)

RECURSIVE Join(_, _)
\* strings.Join(parts, d)
Join(parts, d) ==
    IF Len(parts) = 0 THEN <<>>
    ELSE IF Len(parts) = 1 THEN parts[1]
    ELSE parts[1] \o <<d>> \o Join(Tail(parts), d)

HasPrefix(s, t) == Len(s) >= 1 /\ s[1] = t
HasSuffix(s, t) == Len(s) >= 1 /\ s[Len(s)] = t
TrimSuffix(s, t) == IF HasSuffix(s, t) THEN SubSeq(s, 1, Len(s) - 1) ELSE s

\* all strings over an alphabet, up to a length
Strings(alphabet, n) == UNION {[1..k -> alphabet] : k \in 0..n}

----------------------------------------------------------------------------
(* maps *)

EmptyMap == <<>>
MapSet(m, k, v) == [x \in (DOMAIN m) \cup {k} |-> IF x = k THEN v ELSE m[x]]

----------------------------------------------------------------------------
(* matchRoute *)

NoMatch == [ok |-> FALSE, params |-> EmptyMap, panic |-> FALSE]
Panicked == [ok |-> FALSE, params |-> EmptyMap, panic |-> TRUE]
Matched(params) == [ok |-> TRUE, params |-> params, panic |-> FALSE]

\* a plausible slip: the remainder is taken after the wildcard's own position
WildcardCaptureSkipsOne(pathParts, i) ==
    Join(SubSeq(pathParts, i + 1, Len(pathParts)), "/")

\* strings.Join(pathParts[i:], "/"), i the 1-based position
WildcardCapture(pathParts, i) ==
    Join(SubSeq(pathParts, i, Len(pathParts)), "/")

\* a plausible slip: only a pattern longer than the path is rejected
SegmentCountDiffersOneWay(patternParts, pathParts) ==
    Len(patternParts) > Len(pathParts)

\* len(patternParts) != len(pathParts), the check after the loop
SegmentCountDiffers(patternParts, pathParts) ==
    Len(patternParts) # Len(pathParts)

RECURSIVE matchLoop(_, _, _, _)
\* the loop over patternParts; i is the 1-based position (Go's i + 1)
matchLoop(patternParts, pathParts, i, params) ==
    IF i > Len(patternParts)
    THEN IF SegmentCountDiffers(patternParts, pathParts)
         THEN NoMatch ELSE Matched(params)
    ELSE LET part == patternParts[i] IN
        IF part = <<>> THEN matchLoop(patternParts, pathParts, i + 1, params)
        ELSE IF HasPrefix(part, ":")
        THEN IF HasSuffix(part, "*")
             THEN \* pathParts[i:] panics when Go's i exceeds len(pathParts)
                  IF i - 1 > Len(pathParts) THEN Panicked
                  ELSE Matched(MapSet(params, TrimSuffix(Tail(part), "*"),
                           WildcardCapture(pathParts, i)))
             ELSE IF i - 1 >= Len(pathParts) THEN NoMatch
                  ELSE matchLoop(patternParts, pathParts, i + 1,
                           MapSet(params, Tail(part), pathParts[i]))
        ELSE IF i - 1 >= Len(pathParts) \/ part # pathParts[i] THEN NoMatch
             ELSE matchLoop(patternParts, pathParts, i + 1, params)

matchRoute(pattern, path) ==
    matchLoop(Split(pattern, "/"), Split(path, "/"), 1, EmptyMap)

----------------------------------------------------------------------------
(* Status codes and methods. *)

StatusOK == 200
StatusFound == 302
StatusNotFound == 404

StatusText(code) ==
    CASE code = 200 -> "OK"
      [] code = 302 -> "Found"
      [] code = 404 -> "Not Found"
      [] OTHER -> ""

Digits == <<"0", "1", "2", "3", "4", "5", "6", "7", "8", "9">>

RECURSIVE Itoa(_)
\* fmt.Sprint / %d of a non-negative int
Itoa(n) == IF n < 10 THEN <<Digits[n + 1]>> ELSE Itoa(n \div 10) \o <<Digits[(n % 10) + 1]>>

----------------------------------------------------------------------------
(* The response context, context.go.  A context value holds the fields of   *)
(* *ctx that responding touches, and its connection: the chunks written to  *)
(* it (one per conn.Write, with the place that wrote it), whether it is     *)
(* closed, and how many more writes it accepts (Healthy: all of them).      *)
(* fatal: log.Fatal has ended the process.                                  *)

Healthy == -1

newCtx(writesLeft) ==
    [headers |-> EmptyMap, didWriteHTTP1Header |-> FALSE,
     wire |-> <<>>, closed |-> FALSE, writesLeft |-> writesLeft, fatal |-> FALSE]

Ret(c, err) == [c |-> c, err |-> err]
\* log.Fatal: the process exits
Fatal(c) == Ret([c EXCEPT !.fatal = TRUE], "fatal")

\* c.conn.Write(bytes): fails, writing nothing, on a closed or failed connection
connWrite(c, site, bytes) ==
    IF c.closed \/ c.writesLeft = 0
    THEN Ret(c, "io")
    ELSE Ret([c EXCEPT !.wire = Append(@, [site |-> site, bytes |-> bytes]),
                       !.writesLeft = IF @ > 0 THEN @ - 1 ELSE @], "nil")

SetHeader(c, key, value) == [c EXCEPT !.headers = MapSet(@, key, value)]

StatusLine(statusCode) ==
    <<"HTTP/1.1 ">> \o Itoa(statusCode) \o <<" ", StatusText(statusCode), "\r\n">>

HeaderLine(key, value) == <<key, ": ">> \o value \o <<"\r\n">>

writeHTTP1Header(c, statusCode) ==
    LET w == connWrite(c, "status", StatusLine(statusCode))
    IN  IF w.err # "nil"
        THEN Ret([c EXCEPT !.didWriteHTTP1Header = FALSE], w.err)
        ELSE Ret([w.c EXCEPT !.didWriteHTTP1Header = TRUE], "nil")

RECURSIVE writeHeaderLines(_, _)
\* the range loop of writeHeaders over the keys in the order the map yields them
writeHeaderLines(c, keys) ==
    IF keys = <<>> THEN Ret(c, "nil")
    ELSE LET w == connWrite(c, "header", HeaderLine(keys[1], c.headers[keys[1]]))
         IN  IF w.err # "nil" THEN w ELSE writeHeaderLines(w.c, Tail(keys))

\* a plausible slip: the blank line that ends the header block is not written
writeHeadersNoBlank(c, order) ==
    IF DOMAIN c.headers = {} THEN Ret(c, "headersError")
    ELSE writeHeaderLines(c, SelectSeq(order, LAMBDA k : k \in DOMAIN c.headers))

\* order: the iteration order of the map, as an order of header names
writeHeaders(c, order) ==
    IF DOMAIN c.headers = {} THEN Ret(c, "headersError")
    ELSE LET keys == SelectSeq(order, LAMBDA k : k \in DOMAIN c.headers)
             w == writeHeaderLines(c, keys)
         IN  IF w.err # "nil" THEN w ELSE connWrite(w.c, "blank", <<"\r\n">>)

Write(c, b, order) ==
    LET r1 == writeHeaders(c, order)
    IN  IF r1.err = "headersError"
        THEN LET r2 == IF ~c.didWriteHTTP1Header
                       THEN writeHTTP1Header(c, StatusOK)
                       ELSE Ret(c, "nil")
             IN  IF r2.err # "nil" THEN Fatal(r2.c)
                 ELSE LET r3 == writeHeaders(
                                 SetHeader(r2.c, "Content-Length", Itoa(Len(b))), order)
                      IN  IF r3.err # "nil" THEN Fatal(r3.c)
                          ELSE connWrite(r3.c, "body", b)
        ELSE IF r1.err # "nil" THEN Fatal(r1.c)
        ELSE connWrite(r1.c, "body", b)

\* String and HTML differ in the content type only
writeText(c, contentType, text, statusCode, order) ==
    LET r == writeHTTP1Header(c, statusCode)
    IN  IF r.err # "nil" THEN Fatal(r.c)
        ELSE Write(SetHeader(SetHeader(r.c, "Content-Type", <<contentType>>),
                             "Content-Length", Itoa(Len(text))),
                   text, order)

String(c, plain, statusCode, order) == writeText(c, "text/plain", plain, statusCode, order)

HTML(c, html, statusCode, order) == writeText(c, "text/html", html, statusCode, order)

\* json.Marshal, the encoder: a value is what it encodes to, or is not encodable
jsonMarshal(data) == IF data.encodable THEN Ret(data.bytes, "nil") ELSE Ret(<<>>, "encode")

JSON(c, data, statusCode, order) ==
    LET r == writeHTTP1Header(c, statusCode)
    IN  IF r.err # "nil" THEN Fatal(r.c)
        ELSE LET c2 == SetHeader(r.c, "Content-Type", <<"application/json">>)
                 j == jsonMarshal(data)
             IN  IF j.err # "nil" THEN Ret(c2, j.err)
                 ELSE Write(SetHeader(c2, "Content-Length", Itoa(Len(j.c))), j.c, order)

\* a plausible slip: the connection is left open
RedirectLeavesOpen(c, path, order) ==
    LET r == writeHTTP1Header(c, StatusFound)
    IN  IF r.err # "nil" THEN Fatal(r.c)
        ELSE LET h == writeHeaders(SetHeader(r.c, "Location", path), order)
             IN  IF h.err # "nil" THEN Fatal(h.c)
                 ELSE Ret(h.c, "nil")

Redirect(c, path, order) ==
    LET r == writeHTTP1Header(c, StatusFound)
    IN  IF r.err # "nil" THEN Fatal(r.c)
        ELSE LET h == writeHeaders(SetHeader(r.c, "Location", path), order)
             IN  IF h.err # "nil" THEN Fatal(h.c)
                 ELSE \* conn.Close(): an error on a connection already closed
                      Ret([h.c EXCEPT !.closed = TRUE],
                          IF h.c.closed THEN "io" ELSE "nil")

NotFoundHTML ==
    <<"<", "h", "1", ">", "E", "r", "r", "o", "r", " ", "4", "0", "4", " ",
      "N", "o", "t", " ", "F", "o", "u", "n", "d", "<", "/", "h", "1", ">">>

Err404(c, order) == HTML(c, NotFoundHTML, StatusNotFound, order)

\* os.ReadFile, the filesystem: the files that exist, with their content;
\* pub is a directory
Files == (<<"index.html">> :> <<"<", "p", ">">>)
            @@ (<<"pub", "/", "f">> :> <<"F">>)
            @@ (<<"secret">> :> <<"S">>)
osReadFile(path) ==
    IF path \in DOMAIN Files THEN Ret(Files[path], "nil") ELSE Ret(<<>>, "notexist")

File(c, path, statusCode, order) ==
    LET f == osReadFile(path)
    IN  IF f.err # "nil" THEN Ret(c, f.err)
        ELSE LET r == writeHTTP1Header(c, statusCode)
             IN  IF r.err # "nil" THEN Fatal(r.c)
                 ELSE Write(SetHeader(SetHeader(r.c, "Content-Type", <<"text/html">>),
                                      "Content-Length", Itoa(Len(f.c))),
                            f.c, order)

\* A response method under way, for the servers in which other goroutines
\* run between its writes: String, HTML, Err404, and File once the file is
\* read, are the status line, two SetHeader, and Write.  stage is the
\* conn.Write that comes next, keys the header names the range loop of
\* writeHeaders has still to write.
Resp(statusCode, contentType, text) ==
    [stage |-> "status", code |-> statusCode, contentType |-> contentType,
     text |-> text, keys |-> <<>>]
NoResp == [stage |-> "none", code |-> 0, contentType |-> "", text |-> <<>>, keys |-> <<>>]

\* Err404 under way (context.go:187-197)
Err404Resp == Resp(StatusNotFound, "text/html", NotFoundHTML)

\* log.Fatal in a response under way
FatalStep(c, rs) == [c |-> [c EXCEPT !.fatal = TRUE], rs |-> rs, err |-> "fatal"]

\* one conn.Write of the response and the statements up to the next one
\* (context.go:134-143, 72-91, 216-243); order is the order of the map
respStep(c, rs, order) ==
    CASE rs.stage = "status" ->
           LET r == writeHTTP1Header(c, rs.code)
               c2 == SetHeader(SetHeader(r.c, "Content-Type", <<rs.contentType>>),
                               "Content-Length", Itoa(Len(rs.text)))
           IN  IF r.err # "nil" THEN FatalStep(r.c, rs)
               ELSE [c |-> c2, err |-> "nil",
                     rs |-> [rs EXCEPT !.stage = "header",
                                !.keys = SelectSeq(order,
                                             LAMBDA k : k \in DOMAIN c2.headers)]]
      [] rs.stage = "header" ->
           LET w == connWrite(c, "header", HeaderLine(rs.keys[1], c.headers[rs.keys[1]]))
           IN  IF w.err # "nil" THEN FatalStep(w.c, rs)
               ELSE [c |-> w.c, err |-> "nil",
                     rs |-> [rs EXCEPT !.keys = Tail(@),
                                !.stage = IF Len(rs.keys) > 1 THEN "header" ELSE "blank"]]
      [] rs.stage = "blank" ->
           LET w == connWrite(c, "blank", <<"\r\n">>)
           IN  IF w.err # "nil" THEN FatalStep(w.c, rs)
               ELSE [c |-> w.c, err |-> "nil", rs |-> [rs EXCEPT !.stage = "body"]]
      [] rs.stage = "body" ->
           LET w == connWrite(c, "body", rs.text)
           IN  [c |-> w.c, err |-> w.err, rs |-> [rs EXCEPT !.stage = "end"]]

----------------------------------------------------------------------------
(* The server before anything is registered or accepted: New(). *)

MethodGet == <<"GET">>
MethodPost == <<"POST">>
MethodPut == <<"PUT">>
MethodDelete == <<"DELETE">>
MethodPatch == <<"PATCH">>

Conns == {"c1"}

\* a connection nobody has accepted yet
IdleConn ==
    [pc |-> "idle", raw |-> <<>>, method |-> <<>>, path |-> <<>>,
     looked |-> FALSE, handler |-> 0, params |-> EmptyMap, scanned |-> 0,
     wrapped |-> <<>>, chain |-> <<>>, rs |-> NoResp,
     trace |-> <<>>, ctx |-> newCtx(Healthy), err |-> "nil"]

Free == "free"
Units == {"u1", "u2"}

\* a *ctx as newCtx and setConn leave it: the fields of the context itself;
\* its connection is named, not contained
CtxPart(conn) ==
    [conn |-> conn, headers |-> EmptyMap, didWriteHTTP1Header |-> FALSE,
     params |-> EmptyMap]

\* a net.Conn: what was written to it, whether it is closed, the writes it
\* still accepts
Sock(writesLeft) == [wire |-> <<>>, closed |-> FALSE, writesLeft |-> writesLeft]

\* a ServeHTTP call that has not begun
IdleUnit ==
    [pc |-> "idle", raw |-> <<>>, method |-> <<>>, path |-> <<>>,
     handler |-> 0, params |-> EmptyMap, i |-> 0, chain |-> <<>>,
     rs |-> NoResp, ctx |-> "none", err |-> "nil"]

IdleReg == [pc |-> "idle", op |-> "none"]

\* no request read yet, and ctx.body nil
NoBody == [read |-> FALSE, set |-> FALSE, data |-> <<>>, pos |-> 0]

\* Start has not been called, no handler is static, no request is decoded
InitAside ==
    /\ startPc = "new"
    /\ startErr = "nil"
    /\ statics = EmptyMap
    /\ reqBody = NoBody
    /\ parses = <<>>

\* nothing is served yet and the mutex is free
InitConc ==
    /\ mu = Free
    /\ units = [u \in Units |-> IdleUnit]
    /\ ctxs = [u \in Units |-> CtxPart("none")]
    /\ socks = [u \in Units |-> Sock(Healthy)]
    /\ reg = IdleReg

\* New(), and no connection yet
InitServer ==
    /\ InitConc
    /\ InitAside
    /\ routes = <<>>
    /\ middlewares = <<>>
    /\ patternGroup = <<>>
    /\ groupArg = <<>>
    /\ regs = <<>>
    /\ conns = [c \in Conns |-> IdleConn]
    /\ crashed = FALSE

----------------------------------------------------------------------------
(* The matcher on its own: every pattern and path within the bounds. *)

NotCalled == [ok |-> FALSE, params |-> EmptyMap, panic |-> FALSE, called |-> FALSE]

PatternAlphabet == {"/", ":", "*", "a"}
PathAlphabet == {"/", "a", "b"}

InitMatch ==
    /\ InitServer
    /\ ctx = newCtx(Healthy)
    /\ calls = <<>>
    /\ mPattern \in Strings(PatternAlphabet, MaxPatLen)
    /\ mPath \in Strings(PathAlphabet, MaxPathLen)
    /\ mRes = NotCalled

CallMatchRoute ==
    /\ mRes = NotCalled
    /\ mRes' = [called |-> TRUE] @@ matchRoute(mPattern, mPath)
    /\ UNCHANGED <<mPattern, mPath>>
    /\ UNCHANGED ctxVars
    /\ UNCHANGED serverVars
    /\ UNCHANGED extVars

NextMatch == CallMatchRoute

SpecMatch == InitMatch /\ [][NextMatch]_vars

----------------------------------------------------------------------------
(* One context and every sequence of response methods a handler may call    *)
(* on it, up to MaxCalls.                                                   *)

\* the orders in which a map with these keys may yield them
Orders(keys) == {o \in [1..Cardinality(keys) -> keys] :
                    \A i, j \in DOMAIN o : i # j => o[i] # o[j]}
\* the keys of the headers once a method has set the ones it sets
KeysWith(c, set) == (DOMAIN c.headers) \cup set
\* Write sets Content-Length itself when no header is set
WriteKeys(c) == IF DOMAIN c.headers = {} THEN {"Content-Length"} ELSE DOMAIN c.headers
BodyHeaders == {"Content-Type", "Content-Length"}

\* the orders the range loop of writeHeaders may take: chosen when the loop
\* begins, after the write of the status line
RangeOrders(c, rs) ==
    IF rs.stage = "status" THEN Orders(KeysWith(c, BodyHeaders)) ELSE {<<>>}

Bodies == {<<>>, <<"h", "i">>, <<"h", "e", "l", "l", "o", " ", "w", "o", "r", "l", "d">>}
Codes == {StatusOK, StatusNotFound}
Locations == {<<"/", "a">>}
Values == {[encodable |-> TRUE, bytes |-> <<"{", "}">>], [encodable |-> FALSE, bytes |-> <<>>]}
Paths == {<<"index.html">>, <<"none">>}
SetNames == {"X-Trace", "Content-Length"}
SetValues == {<<"7">>}

Call(op, arg, code, err) == [op |-> op, arg |-> arg, code |-> code, err |-> err]

InitCtx ==
    /\ \E w \in {Healthy} \cup 0..MaxOkWrites : ctx = newCtx(w)
    /\ calls = <<>>
    /\ mPattern = <<>> /\ mPath = <<>> /\ mRes = NotCalled
    /\ InitServer

CanCall == ~ctx.fatal /\ Len(calls) < MaxCalls

Returned(r, op, arg, code) ==
    /\ ctx' = r.c
    /\ calls' = Append(calls, Call(op, arg, code, r.err))
    /\ UNCHANGED matchVars
    /\ UNCHANGED serverVars
    /\ UNCHANGED extVars

CallSetHeader ==
    /\ CanCall
    /\ \E k \in SetNames, v \in SetValues :
          Returned(Ret(SetHeader(ctx, k, v), "nil"), "SetHeader", <<k>> \o v, 0)

CallWrite ==
    /\ CanCall
    /\ \E b \in Bodies, o \in Orders(WriteKeys(ctx)) :
          Returned(Write(ctx, b, o), "Write", b, 0)

CallString ==
    /\ CanCall
    /\ \E b \in Bodies, code \in Codes, o \in Orders(KeysWith(ctx, BodyHeaders)) :
          Returned(String(ctx, b, code, o), "String", b, code)

CallHTML ==
    /\ CanCall
    /\ \E b \in Bodies, code \in Codes, o \in Orders(KeysWith(ctx, BodyHeaders)) :
          Returned(HTML(ctx, b, code, o), "HTML", b, code)

CallJSON ==
    /\ CanCall
    /\ \E d \in Values, code \in Codes, o \in Orders(KeysWith(ctx, BodyHeaders)) :
          Returned(JSON(ctx, d, code, o), "JSON", d.bytes, code)

CallFile ==
    /\ CanCall
    /\ \E p \in Paths, code \in Codes, o \in Orders(KeysWith(ctx, BodyHeaders)) :
          Returned(File(ctx, p, code, o), "File", p, code)

CallErr404 ==
    /\ CanCall
    /\ \E o \in Orders(KeysWith(ctx, BodyHeaders)) :
          Returned(Err404(ctx, o), "Err404", <<>>, 0)

CallRedirect ==
    /\ CanCall
    /\ \E l \in Locations, o \in Orders(KeysWith(ctx, {"Location"})) :
          Returned(Redirect(ctx, l, o), "Redirect", l, 0)

NextCtx ==
    \/ CallSetHeader
    \/ CallWrite
    \/ CallString
    \/ CallHTML
    \/ CallJSON
    \/ CallFile
    \/ CallErr404
    \/ CallRedirect

SpecCtx == InitCtx /\ [][NextCtx]_vars

----------------------------------------------------------------------------
(* The server, part_001: New, Group, Use, GET, POST, handleFunc, ServeHTTP. *)

\* Group(pattern): the prefix with one trailing slash cut; it returns v itself
GroupPrefix(pattern) ==
    IF pattern[Len(pattern)] = "/" THEN SubSeq(pattern, 1, Len(pattern) - 1) ELSE pattern

\* pattern[0] panics on the empty string, the check panics without a leading /
GroupPanics(pattern) == pattern = <<>> \/ pattern[1] # "/"

\* handleFunc appends under the mutex; a route's handler is named by its position
handleFunc(method, pattern) ==
    Append(routes, [pattern |-> pattern, handler |-> Len(routes) + 1, method |-> method])

\* v.GET(pattern, fn) and g.GET(pattern, fn), and the same for POST, PUT,
\* DELETE and PATCH: g is the pointer Group returned, which is v, so both
\* prepend v.patternGroup
Register(via, method, pattern) ==
    /\ ~crashed
    /\ Len(routes) < MaxRoutes
    /\ via = "g" => groupArg # <<>>
    /\ routes' = handleFunc(method, patternGroup \o pattern)
    /\ regs' = Append(regs, [via |-> via, pattern |-> pattern, prefix |-> groupArg])
    /\ UNCHANGED <<middlewares, patternGroup, groupArg, conns, crashed>>
    /\ UNCHANGED <<matchVars, ctxVars, extVars>>

\* the patterns registered: a literal, a capture, and one with an empty
\* segment before a wildcard
GetPatterns == {<<"/", "a">>, <<"/", ":", "i", "d">>, <<"/", "a", "/", "/", ":", "r", "*">>}
PostPatterns == {<<"/", "a">>}
Prefixes == {<<"/", "u">>, <<"/", "u", "/">>, <<"u">>}

Group ==
    /\ ~crashed
    /\ \E pattern \in Prefixes :
          IF GroupPanics(pattern)
          THEN crashed' = TRUE /\ UNCHANGED <<patternGroup, groupArg>>
          ELSE /\ patternGroup' = GroupPrefix(pattern)
               /\ groupArg' = pattern
               /\ UNCHANGED crashed
    /\ UNCHANGED <<routes, middlewares, regs, conns>>
    /\ UNCHANGED <<matchVars, ctxVars, extVars>>

GET == \E via \in {"v", "g"}, pattern \in GetPatterns : Register(via, MethodGet, pattern)

POST == \E via \in {"v", "g"}, pattern \in PostPatterns : Register(via, MethodPost, pattern)

PUT == \E via \in {"v", "g"}, pattern \in PostPatterns : Register(via, MethodPut, pattern)

DELETE == \E via \in {"v", "g"}, pattern \in PostPatterns : Register(via, MethodDelete, pattern)

PATCH == \E via \in {"v", "g"}, pattern \in PostPatterns : Register(via, MethodPatch, pattern)

\* Use(mw): a middleware is named by its position in the list
Use ==
    /\ ~crashed
    /\ Len(middlewares) < MaxMiddlewares
    /\ middlewares' = Append(middlewares, Len(middlewares) + 1)
    /\ UNCHANGED <<routes, patternGroup, groupArg, regs, conns, crashed>>
    /\ UNCHANGED <<matchVars, ctxVars, extVars>>

RECURSIVE scanRoutes(_, _, _, _, _)
\* the loop over v.routes: the first route whose pattern and method match
scanRoutes(rs, i, method, path, found) ==
    IF i > Len(rs) THEN found
    ELSE LET m == matchRoute(rs[i].pattern, path)
         IN  IF m.panic THEN [handler |-> 0, params |-> EmptyMap, panic |-> TRUE]
             ELSE IF m.ok /\ rs[i].method = method
             THEN [handler |-> rs[i].handler, params |-> m.params, panic |-> FALSE]
             ELSE scanRoutes(rs, i + 1, method, path, found)

NoHandler == [handler |-> 0, params |-> EmptyMap, panic |-> FALSE]

\* HandlerFunc values: <<"route", h>> is the handler of route h, and
\* <<"mw", m, next>> is what middleware m returns for next
RECURSIVE wrapLoopForward(_, _, _)
\* a plausible slip: the loop runs upwards, the last middleware ends outermost
wrapLoopForward(mws, i, handler) ==
    IF i < 1 THEN handler
    ELSE wrapLoopForward(mws, i - 1, <<"mw", mws[Len(mws) + 1 - i], handler>>)

RECURSIVE wrapLoop(_, _, _)
\* for i := len(mws) - 1; i >= 0; i-- { handler = mws[i](handler) }
wrapLoop(mws, i, handler) ==
    IF i < 1 THEN handler
    ELSE wrapLoop(mws, i - 1, <<"mw", mws[i], handler>>)

\* c.Params(key): the zero value for a missing key
Params(params, key) == IF key \in DOMAIN params THEN params[key] ELSE <<>>

\* fmt.Sprintf("User ID: %s", id)
UserID(id) == <<"U", "s", "e", "r", " ", "I", "D", ":", " ">> \o id

\* a route handler, the README's handler of "/:id": it answers
\* c.String(resp, 200) with "User ID: " and the value of the parameter id
exampleHandler(params) ==
    LET id == Params(params, <<"i", "d">>)
        resp == UserID(id)
    IN  Ret(Resp(StatusOK, "text/plain", resp), "nil")

\* strings.Contains(s, "..")
ContainsDotDot(s) == \E k \in 1..(Len(s) - 1) : s[k] = "." /\ s[k + 1] = "."

RECURSIVE cleanLoop(_, _, _)
\* filepath.Clean, element by element: empty and . are dropped, .. removes
\* the element before it, is dropped at the root, and is kept otherwise
cleanLoop(elems, rooted, out) ==
    IF elems = <<>> THEN out
    ELSE LET e == elems[1] IN
         IF e = <<>> \/ e = <<".">> THEN cleanLoop(Tail(elems), rooted, out)
         ELSE IF e = <<".", ".">>
         THEN IF out # <<>> /\ out[Len(out)] # <<".", ".">>
              THEN cleanLoop(Tail(elems), rooted, SubSeq(out, 1, Len(out) - 1))
              ELSE IF rooted THEN cleanLoop(Tail(elems), rooted, out)
              ELSE cleanLoop(Tail(elems), rooted, Append(out, e))
         ELSE cleanLoop(Tail(elems), rooted, Append(out, e))

filepathClean(path) ==
    LET rooted == path # <<>> /\ path[1] = "/"
        out == Join(cleanLoop(Split(path, "/"), rooted, <<>>), "/")
        res == IF rooted THEN <<"/">> \o out ELSE out
    IN  IF res = <<>> THEN <<".">> ELSE res

\* filepath.Join(directory, relPath): empty elements are ignored
filepathJoin(directory, relPath) ==
    IF directory = <<>> /\ relPath = <<>> THEN <<>>
    ELSE IF directory = <<>> THEN filepathClean(relPath)
    ELSE IF relPath = <<>> THEN filepathClean(directory)
    ELSE filepathClean(directory \o <<"/">> \o relPath)

\* the handler that Static installs (part_001:185-197), up to its first
\* write: the response method it enters, or the error of os.ReadFile, which
\* File returns before any write (context.go:200-203)
staticHandler(directory, params) ==
    LET rawPath == Params(params, <<"filepath">>)
        relPath == filepathClean(rawPath)
        f == osReadFile(filepathJoin(directory, relPath))
    IN  IF ContainsDotDot(relPath)
        THEN Ret(Err404Resp, "nil")
        ELSE IF f.err # "nil" THEN Ret(NoResp, f.err)
        ELSE Ret(Resp(200, "text/html", f.c), "nil")

\* handler(context): the closure registered for the route, up to its first
\* write
routeHandler(h, params) ==
    IF h \in DOMAIN statics
    THEN staticHandler(statics[h], params)
    ELSE exampleHandler(params)

RECURSIVE enter(_)
\* calling a HandlerFunc: a middleware acts, then calls next, down to the
\* handler of the route
enter(handler) ==
    IF handler[1] = "route" THEN << <<"handler", handler[2]>> >>
    ELSE << <<"before", handler[2]>> >> \o enter(handler[3])

RECURSIVE leave(_)
\* the handler has returned: each middleware acts again, the innermost first
leave(handler) ==
    IF handler[1] = "route" THEN <<>>
    ELSE leave(handler[3]) \o << <<"after", handler[2]>> >>

\* what a client may send: a request line, a header, the blank line
RawRequest(method, path) ==
    method \o <<" ">> \o path \o <<" ", "HTTP/1.1", "\r\n", "Host:", " ", "h", "\r\n", "\r\n">>

\* the status line, two header lines and the blank line are written, then
\* the write of the body fails: the response method returns the error
BodyWriteFails == 4

\* connections that accept every write, none, and all but the body's
ServeWrites == {Healthy, 0, BodyWriteFails}

ReqPaths == {<<"/", "a">>, <<"/", "b">>}
\* well-formed requests, a request line without a path, and nothing at all:
\* the client closed without sending, conn.Read returns io.EOF
RawRequests ==
    {RawRequest(m, p) : m \in {MethodGet, MethodPost}, p \in ReqPaths}
        \cup {<<"GET", "\r\n", "\r\n">>, <<>>}

Step(c, rec) ==
    /\ conns' = [conns EXCEPT ![c] = rec]
    /\ UNCHANGED <<matchVars, ctxVars, tableVars, extVars>>

\* v.ServeHTTP(conn) is called on a connection (part_001:88): the caller is
\* any code that holds a connection; what Start does with the result is in
\* the section on Start below
ServeHTTP(c) ==
    /\ ~crashed
    /\ conns[c].pc = "idle"
    /\ \E raw \in RawRequests, w \in ServeWrites :
          Step(c, [IdleConn EXCEPT !.pc = "read", !.raw = raw, !.ctx = newCtx(w)])
    /\ UNCHANGED crashed

\* conn.Read, the request line, newCtx (part_001:90-157)
ServeRead(c) ==
    /\ ~crashed
    /\ conns[c].pc = "read"
    /\ LET cn == conns[c]
           connection == Split(cn.raw, "\r\n")
           reqLine == Split(connection[1], " ")
       IN  IF cn.raw = <<>>
           THEN Step(c, [cn EXCEPT !.pc = "close", !.err = "io"])
           ELSE IF Len(reqLine) < 2
           THEN Step(c, [cn EXCEPT !.pc = "close", !.err = "malformed"])
           ELSE Step(c, [cn EXCEPT !.pc = "lookup", !.method = reqLine[1],
                                   !.path = reqLine[2]])
    /\ UNCHANGED crashed

\* a panic in ServeHTTP: the deferred conn.Close() (part_001:89) runs while
\* the goroutine unwinds, then the process ends
Panic(cn) == [cn EXCEPT !.err = "panic", !.ctx = [@ EXCEPT !.closed = TRUE]]

\* v.mu.Lock(); the scan; v.mu.Unlock() (part_001:158-169); a panic of
\* matchRoute (214) ends the process
ServeLookup(c) ==
    /\ ~crashed
    /\ conns[c].pc = "lookup"
    /\ LET cn == conns[c]
           found == scanRoutes(routes, 1, cn.method, cn.path, NoHandler)
       IN  IF found.panic
           THEN crashed' = TRUE /\ Step(c, Panic(cn))
           ELSE /\ Step(c, [cn EXCEPT !.pc = "dispatch", !.looked = TRUE,
                                      !.handler = found.handler,
                                      !.params = found.params, !.scanned = Len(routes)])
                /\ UNCHANGED crashed

\* the middleware loop and the call of the handler, up to the first write of
\* its response, or Err404 up to its first write (part_001:171-181).  The
\* loop reads v.middlewares without the mutex.  racing: another goroutine is
\* inside Use's append (part_001:54) while the loop reads; the read is a data
\* race and may pair the new length with the old array, so that the element
\* called is no function: the goroutine panics and the process ends.  The list as it was before
\* the append and as it is after it are the outcomes without racing, with
\* Use as a step before or after this one.
ServeDispatch(c, racing) ==
    /\ ~crashed
    /\ conns[c].pc = "dispatch"
    /\ IF racing
       THEN /\ conns[c].handler # 0
            /\ Len(middlewares) < MaxMiddlewares
            /\ crashed' = TRUE
            /\ Step(c, Panic(conns[c]))
       ELSE LET cn == conns[c]
                wrapped == wrapLoop(middlewares, Len(middlewares), <<"route", cn.handler>>)
                h == routeHandler(cn.handler, cn.params)
            IN  /\ IF cn.handler = 0
                   THEN Step(c, [cn EXCEPT !.pc = "write",
                                    !.rs = Err404Resp])
                   ELSE Step(c, [cn EXCEPT !.pc = IF h.err = "nil" THEN "write" ELSE "close",
                                    !.wrapped = middlewares,
                                    !.chain = wrapped,
                                    !.trace = enter(wrapped),
                                    !.rs = h.c,
                                    !.err = h.err])
                /\ UNCHANGED crashed

\* one conn.Write of the response under way (context.go:90, 219, 235, 241):
\* a failed write of the status line or of the headers is log.Fatal, a
\* failed write of the body is the error the response method returns
ServeWrite(c) ==
    /\ ~crashed
    /\ conns[c].pc = "write"
    /\ \E order \in RangeOrders(conns[c].ctx, conns[c].rs) :
          LET cn == conns[c]
              r == respStep(cn.ctx, cn.rs, order)
          IN  /\ Step(c, [cn EXCEPT !.ctx = r.c,
                                    !.rs = IF r.c.fatal THEN cn.rs ELSE r.rs,
                                    !.err = IF r.c.fatal THEN cn.err ELSE r.err,
                                    !.pc = IF ~r.c.fatal /\ r.rs.stage = "end"
                                           THEN "close" ELSE "write"])
              /\ crashed' = r.c.fatal

\* the handler returns through the middlewares, then the deferred
\* conn.Close() (part_001:89) and the return
ServeClose(c) ==
    /\ ~crashed
    /\ conns[c].pc = "close"
    /\ Step(c, [conns[c] EXCEPT !.pc = "done",
                                !.trace = IF conns[c].chain = <<>> THEN @
                                          ELSE @ \o leave(conns[c].chain),
                                !.ctx = [@ EXCEPT !.closed = TRUE]])
    /\ UNCHANGED crashed

\* ServeHTTP has returned its error to the caller (part_001:93, 100, 178,
\* 181), which may call it again on another connection
ServeReturn(c) ==
    /\ ~crashed
    /\ conns[c].pc = "done"
    /\ Step(c, IdleConn)
    /\ UNCHANGED crashed

\* a server whose routes are registered without a group
Next ==
    \/ GET
    \/ POST
    \/ Use
    \/ \E c \in Conns : ServeHTTP(c)
    \/ \E c \in Conns : ServeRead(c)
    \/ \E c \in Conns : ServeLookup(c)
    \/ \E c \in Conns, racing \in BOOLEAN : ServeDispatch(c, racing)
    \/ \E c \in Conns : ServeWrite(c)
    \/ \E c \in Conns : ServeClose(c)
    \/ \E c \in Conns : ServeReturn(c)

Init ==
    /\ InitServer
    /\ ctx = newCtx(Healthy) /\ calls = <<>>
    /\ mPattern = <<>> /\ mPath = <<>> /\ mRes = NotCalled

Spec == Init /\ [][Next]_vars

\* registration alone, with groups and with every method
NextReg ==
    \/ Group
    \/ GET
    \/ POST
    \/ PUT
    \/ DELETE
    \/ PATCH

SpecReg == Init /\ [][NextReg]_vars

----------------------------------------------------------------------------
(* Static (part_001:184-198): a server whose routes are static directories. *)

StaticPrefixes == {<<"/", "s">>}
Directories == {<<"pub">>}

\* v.Static(prefix, directory): v.GET(prefix+"/:filepath", closure over directory)
Static ==
    /\ ~crashed
    /\ Len(routes) < MaxRoutes
    /\ \E prefix \in StaticPrefixes, directory \in Directories :
          /\ routes' = handleFunc(MethodGet,
                          patternGroup \o prefix \o <<"/", ":", "filepath">>)
          /\ regs' = Append(regs, [via |-> "v",
                                   pattern |-> prefix \o <<"/", ":", "filepath">>,
                                   prefix |-> groupArg])
          /\ statics' = MapSet(statics, Len(routes) + 1, directory)
    /\ UNCHANGED <<middlewares, patternGroup, groupArg, conns, crashed>>
    /\ UNCHANGED <<matchVars, ctxVars, concVars, startVars, bodyVars>>

\* requests for a file, a missing file, the directory itself, the parent, a
\* name with two dots, and a path that climbs out with a slash
StaticPaths ==
    {<<"/", "s", "/", "f">>, <<"/", "s", "/", "none">>, <<"/", "s", "/">>,
     <<"/", "s", "/", ".", ".">>, <<"/", "s", "/", "f", ".", ".", "g">>,
     <<"/", "s", "/", ".", ".", "/", "secret">>}
StaticRequests == {RawRequest(MethodGet, p) : p \in StaticPaths}

\* v.ServeHTTP(conn) is called on the connection of a client that asks for
\* a file
ServeHTTPStatic(c) ==
    /\ ~crashed
    /\ conns[c].pc = "idle"
    /\ \E raw \in StaticRequests, w \in ServeWrites :
          Step(c, [IdleConn EXCEPT !.pc = "read", !.raw = raw, !.ctx = newCtx(w)])
    /\ UNCHANGED crashed

NextStatic ==
    \/ Static
    \/ \E c \in Conns : ServeHTTPStatic(c)
    \/ \E c \in Conns : ServeRead(c)
    \/ \E c \in Conns : ServeLookup(c)
    \/ \E c \in Conns : ServeDispatch(c, FALSE)
    \/ \E c \in Conns : ServeWrite(c)
    \/ \E c \in Conns : ServeClose(c)
    \/ \E c \in Conns : ServeReturn(c)

SpecStatic == Init /\ [][NextStatic]_vars

----------------------------------------------------------------------------
(* ServeHTTP step by step (part_001:88-182), two calls running at once      *)
(* while another goroutine registers.  A step is at most one access to      *)
(* state that other goroutines share.                                       *)

\* the context and its connection as one value, as the response methods take it
Bind(cx, s) ==
    [headers |-> cx.headers, didWriteHTTP1Header |-> cx.didWriteHTTP1Header,
     wire |-> s.wire, closed |-> s.closed, writesLeft |-> s.writesLeft,
     fatal |-> FALSE]

\* a plausible slip: one context for the server, as in src/vermouth.go
serverCtx(u) == "u1"

\* context := newCtx(): an object of its own for every call
newCtxId(u) == u

\* a plausible slip: the mutex is kept until ServeHTTP returns
muKept(u) == u

\* v.mu.Unlock() after the scan
muUnlocked(u) == Free

ConcPatterns == {<<"/", ":", "i", "d">>}
ConcRequests == {RawRequest(MethodGet, <<"/", "a">>), RawRequest(MethodGet, <<"/", "b">>)}
ConcWrites == {Healthy, 0}

\* the request of a call: no route tells the two paths apart, so the first
\* call asks for /a and the second for either
ConcRequestsOf(u) ==
    IF u = "u1" THEN {RawRequest(MethodGet, <<"/", "a">>)} ELSE ConcRequests

\* what a read of v.middlewares without the mutex may see: the list, or while
\* an append of Use is under way the list with the new element
SeenMiddlewares ==
    IF reg.pc = "append" /\ reg.op = "use"
    THEN {middlewares, Append(middlewares, Len(middlewares) + 1)}
    ELSE {middlewares}

ConcStep(u, rec) ==
    /\ units' = [units EXCEPT ![u] = rec]
    /\ UNCHANGED aside

\* a panic in ServeHTTP: the deferred conn.Close() (part_001:89) runs while
\* the goroutine unwinds, then the process ends
ConcPanic(u) ==
    /\ crashed' = TRUE
    /\ ConcStep(u, [units[u] EXCEPT !.err = "panic"])
    /\ socks' = [socks EXCEPT ![u].closed = TRUE]

\* ServeHTTP(conn) is called with a connection of its own
Serve(u) ==
    /\ ~crashed
    /\ units[u].pc = "idle"
    /\ \E raw \in ConcRequestsOf(u), w \in ConcWrites :
          /\ ConcStep(u, [IdleUnit EXCEPT !.pc = "read", !.raw = raw])
          /\ socks' = [socks EXCEPT ![u] = Sock(w)]
    /\ UNCHANGED <<routes, middlewares, crashed, mu, ctxs, reg>>

\* conn.Read, the request line, newCtx and setConn (part_001:89-157)
Read(u) ==
    /\ ~crashed
    /\ units[u].pc = "read"
    /\ LET un == units[u]
           connection == Split(un.raw, "\r\n")
           reqLine == Split(connection[1], " ")
           id == newCtxId(u)
       IN  IF un.raw = <<>>
           THEN ConcStep(u, [un EXCEPT !.pc = "close", !.err = "io"]) /\ UNCHANGED ctxs
           ELSE IF Len(reqLine) < 2
           THEN ConcStep(u, [un EXCEPT !.pc = "close", !.err = "malformed"])
                    /\ UNCHANGED ctxs
           ELSE /\ ConcStep(u, [un EXCEPT !.pc = "lock", !.method = reqLine[1],
                                          !.path = reqLine[2], !.ctx = id])
                /\ ctxs' = [ctxs EXCEPT ![id] = CtxPart(u)]
    /\ UNCHANGED <<routes, middlewares, crashed, mu, socks, reg>>

\* v.mu.Lock() (part_001:161)
Lock(u) ==
    /\ ~crashed
    /\ units[u].pc = "lock"
    /\ mu = Free
    /\ mu' = u
    /\ ConcStep(u, [units[u] EXCEPT !.pc = "scan"])
    /\ UNCHANGED <<routes, middlewares, crashed, ctxs, socks, reg>>

\* the loop over v.routes (part_001:162-168); a panic of matchRoute ends the
\* process
Scan(u) ==
    /\ ~crashed
    /\ units[u].pc = "scan"
    /\ LET un == units[u]
           found == scanRoutes(routes, 1, un.method, un.path, NoHandler)
       IN  IF found.panic
           THEN ConcPanic(u)
           ELSE /\ ConcStep(u, [un EXCEPT !.pc = "unlock", !.handler = found.handler,
                                          !.params = found.params])
                /\ UNCHANGED <<crashed, socks>>
    /\ UNCHANGED <<routes, middlewares, mu, ctxs, reg>>

\* v.mu.Unlock() (part_001:169), and the test of handler (171)
Unlock(u) ==
    /\ ~crashed
    /\ units[u].pc = "unlock"
    /\ mu' = muUnlocked(u)
    /\ ConcStep(u, [units[u] EXCEPT
                      !.pc = IF units[u].handler # 0 THEN "wrapinit" ELSE "notfound",
                      !.chain = <<"route", units[u].handler>>])
    /\ UNCHANGED <<routes, middlewares, crashed, ctxs, socks, reg>>

\* i := len(v.middlewares) - 1 (part_001:172), read without the mutex
WrapInit(u) ==
    /\ ~crashed
    /\ units[u].pc = "wrapinit"
    /\ \E seen \in SeenMiddlewares :
          ConcStep(u, [units[u] EXCEPT !.pc = "wrap", !.i = Len(seen)])
    /\ UNCHANGED <<routes, middlewares, crashed, mu, ctxs, socks, reg>>

\* i >= 0; handler = v.middlewares[i](handler); i-- (part_001:172-174), read
\* without the mutex: an index beyond the list that is seen panics
WrapStep(u) ==
    /\ ~crashed
    /\ units[u].pc = "wrap"
    /\ LET un == units[u] IN
       IF un.i < 1
       THEN ConcStep(u, [un EXCEPT !.pc = "setparams"]) /\ UNCHANGED <<crashed, socks>>
       ELSE \E seen \in SeenMiddlewares :
               IF un.i > Len(seen)
               THEN ConcPanic(u)
               ELSE /\ ConcStep(u, [un EXCEPT !.i = un.i - 1,
                                              !.chain = <<"mw", seen[un.i], un.chain>>])
                    /\ UNCHANGED <<crashed, socks>>
    /\ UNCHANGED <<routes, middlewares, mu, ctxs, reg>>

\* context.setParams(params) (part_001:176) and the call handler(context)
\* (177): the locals handler and params are not read again
SetParams(u) ==
    /\ ~crashed
    /\ units[u].pc = "setparams"
    /\ ctxs' = [ctxs EXCEPT ![units[u].ctx].params = units[u].params]
    /\ ConcStep(u, [units[u] EXCEPT !.pc = "handler", !.chain = <<>>,
                                    !.params = EmptyMap])
    /\ UNCHANGED <<routes, middlewares, crashed, mu, socks, reg>>

\* the result of a response method on context id: the context and the
\* connection it names take what the method left, log.Fatal ends the process
Respond(id, r) ==
    /\ ctxs' = [ctxs EXCEPT ![id].headers = r.c.headers,
                            ![id].didWriteHTTP1Header = r.c.didWriteHTTP1Header]
    /\ socks' = [socks EXCEPT ![ctxs[id].conn].wire = r.c.wire,
                              ![ctxs[id].conn].closed = r.c.closed,
                              ![ctxs[id].conn].writesLeft = r.c.writesLeft]
    /\ crashed' = r.c.fatal

\* handler(context) (part_001:177) has been called; a handler may register a
\* route: v.GET locks, appends and unlocks
HandlerRegister(u) ==
    /\ ~crashed
    /\ units[u].pc = "handler"
    /\ mu = Free
    /\ Len(routes) < MaxRoutes
    /\ \E pattern \in ConcPatterns : routes' = handleFunc(MethodGet, pattern)
    /\ ConcStep(u, [units[u] EXCEPT !.pc = "registered"])
    /\ UNCHANGED <<middlewares, crashed, mu, ctxs, socks, reg>>

\* the handler: c.SetHeader("X-Id", c.Params("id"))
HandlerSetHeader(u) ==
    /\ ~crashed
    /\ units[u].pc \in {"handler", "registered"}
    /\ LET id == units[u].ctx IN
       ctxs' = [ctxs EXCEPT ![id].headers =
                   MapSet(@, "X-Id", Params(ctxs[id].params, <<"i", "d">>))]
    /\ ConcStep(u, [units[u] EXCEPT !.pc = "respond"])
    /\ UNCHANGED <<routes, middlewares, crashed, mu, socks, reg>>

\* one conn.Write of the response rs of u and the statements up to the next
\* one; at holds while writes are left.  A failed write of the status line
\* or of the headers is log.Fatal, which ends the process with the other
\* call wherever it is
RespondStep(u, rs, at) ==
    LET id == units[u].ctx
        c == Bind(ctxs[id], socks[ctxs[id].conn])
    IN  \E order \in RangeOrders(c, rs) :
           LET r == respStep(c, rs, order)
           IN  /\ Respond(id, r)
               /\ ConcStep(u, [units[u] EXCEPT
                                 !.pc = IF r.c.fatal \/ r.rs.stage = "end"
                                        THEN "close" ELSE at,
                                 !.rs = r.rs,
                                 !.err = r.err])

\* the handler: return c.String(fmt.Sprintf("User ID: %s", c.Params("id")), 200),
\* one conn.Write at a time (context.go:134-143): at "respond" the call and
\* the write of the status line, at "string" the write that comes next
HandlerRespond(u) ==
    /\ ~crashed
    /\ units[u].pc \in {"respond", "string"}
    /\ LET id == units[u].ctx
           resp == UserID(Params(ctxs[id].params, <<"i", "d">>))
       IN  RespondStep(u, IF units[u].pc = "respond"
                          THEN Resp(StatusOK, "text/plain", resp)
                          ELSE units[u].rs, "string")
    /\ UNCHANGED <<routes, middlewares, mu, reg>>

\* context.Err404() (part_001:180), one conn.Write at a time
\* (context.go:187-197): at "notfound" the call and the write of the status
\* line, at "err404" the write that comes next
NotFound(u) ==
    /\ ~crashed
    /\ units[u].pc \in {"notfound", "err404"}
    /\ RespondStep(u, IF units[u].pc = "notfound"
                      THEN Err404Resp
                      ELSE units[u].rs, "err404")
    /\ UNCHANGED <<routes, middlewares, mu, reg>>

\* the deferred conn.Close() (part_001:89) and the return: what is left of
\* the call is its request and its result
Close(u) ==
    /\ ~crashed
    /\ units[u].pc = "close"
    /\ socks' = [socks EXCEPT ![u].closed = TRUE]
    /\ ConcStep(u, [IdleUnit EXCEPT !.pc = "done", !.raw = units[u].raw,
                                    !.method = units[u].method, !.path = units[u].path,
                                    !.ctx = units[u].ctx, !.err = units[u].err])
    /\ UNCHANGED <<routes, middlewares, crashed, mu, ctxs, reg>>

\* the registering goroutine: Use or GET, v.mu.Lock() (part_001:52, 83)
RegLock ==
    /\ ~crashed
    /\ reg.pc = "idle"
    /\ mu = Free
    /\ \E op \in {"use", "get"} :
          /\ op = "use" => Len(middlewares) < MaxMiddlewares
          /\ op = "get" => Len(routes) < MaxRoutes
          /\ reg' = [pc |-> "append", op |-> op]
    /\ mu' = "reg"
    /\ UNCHANGED <<aside, routes, middlewares, crashed, units, ctxs, socks>>

\* the append (part_001:54, 85)
RegAppend ==
    /\ ~crashed
    /\ reg.pc = "append"
    /\ IF reg.op = "use"
       THEN /\ middlewares' = Append(middlewares, Len(middlewares) + 1)
            /\ UNCHANGED routes
       ELSE /\ \E pattern \in ConcPatterns : routes' = handleFunc(MethodGet, pattern)
            /\ UNCHANGED middlewares
    /\ reg' = [reg EXCEPT !.pc = "unlock"]
    /\ UNCHANGED <<aside, crashed, mu, units, ctxs, socks>>

\* the deferred v.mu.Unlock() (part_001:53, 84)
RegUnlock ==
    /\ ~crashed
    /\ reg.pc = "unlock"
    /\ mu' = Free
    /\ reg' = IdleReg
    /\ UNCHANGED <<aside, routes, middlewares, crashed, units, ctxs, socks>>

NextConc ==
    \/ \E u \in Units : Serve(u)
    \/ \E u \in Units : Read(u)
    \/ \E u \in Units : Lock(u)
    \/ \E u \in Units : Scan(u)
    \/ \E u \in Units : Unlock(u)
    \/ \E u \in Units : WrapInit(u)
    \/ \E u \in Units : WrapStep(u)
    \/ \E u \in Units : SetParams(u)
    \/ \E u \in Units : HandlerRegister(u)
    \/ \E u \in Units : HandlerSetHeader(u)
    \/ \E u \in Units : HandlerRespond(u)
    \/ \E u \in Units : NotFound(u)
    \/ \E u \in Units : Close(u)
    \/ RegLock
    \/ RegAppend
    \/ RegUnlock

SpecConc == Init /\ [][NextConc]_vars

----------------------------------------------------------------------------
(* Start (part_001:237-268): the accept loop, one goroutine per connection, *)
(* and the channel errch on which each goroutine reports what ServeHTTP     *)
(* returned.  errch has no buffer: a send waits for the loop's select.      *)

StartConns == {"c1", "c2"}

StartRequests == {RawRequest(MethodGet, <<"/", "a">>), <<"GET", "\r\n", "\r\n">>, <<>>}
StartWrites == {Healthy, BodyWriteFails}

\* what Start's steps leave alone
startFrame == <<mPattern, mPath, mRes, ctx, calls, routes, middlewares, patternGroup,
                groupArg, regs, crashed, concVars, statics, bodyVars>>

\* the bootstrap registers before it calls Start
BootGET ==
    /\ startPc = "new"
    /\ \E pattern \in ConcPatterns : Register("v", MethodGet, pattern)

BootUse ==
    /\ startPc = "new"
    /\ Use

\* net.Listen (part_001:239-243)
StartListen ==
    /\ ~crashed
    /\ startPc = "new"
    /\ \E ok \in BOOLEAN :
          IF ok THEN startPc' = "accept" /\ UNCHANGED startErr
          ELSE startPc' = "returned" /\ startErr' = "listen"
    /\ UNCHANGED <<startFrame, conns>>

\* l.Accept() gives a connection and the goroutine is started (part_001:246-258)
StartAccept(c) ==
    /\ ~crashed
    /\ startPc = "accept"
    /\ conns[c].pc = "idle"
    /\ \E raw \in StartRequests, w \in StartWrites :
          conns' = [conns EXCEPT ![c] =
                       [IdleConn EXCEPT !.pc = "read", !.raw = raw, !.ctx = newCtx(w)]]
    /\ startPc' = "select"
    /\ UNCHANGED <<startFrame, startErr>>

\* l.Accept() fails (part_001:246-249)
StartAcceptFails ==
    /\ ~crashed
    /\ startPc = "accept"
    /\ startPc' = "returned"
    /\ startErr' = "accept"
    /\ UNCHANGED <<startFrame, conns>>

\* the goroutine: ServeHTTP has returned, errch <- err begins (part_001:252-257)
Send(c) ==
    /\ ~crashed
    /\ conns[c].pc = "done"
    /\ conns' = [conns EXCEPT ![c].pc = "send"]
    /\ UNCHANGED <<startFrame, startVars>>

Senders == {c \in StartConns : conns[c].pc = "send"}

\* select (part_001:260-266): a waiting send is received and its goroutine
\* ends, a non-nil error makes Start return; with no send waiting, default
StartSelect ==
    /\ ~crashed
    /\ startPc = "select"
    /\ IF Senders = {}
       THEN startPc' = "accept" /\ UNCHANGED <<startErr, conns>>
       ELSE \E c \in Senders :
               /\ conns' = [conns EXCEPT ![c].pc = "ended"]
               /\ IF conns[c].err # "nil"
                  THEN startPc' = "returned" /\ startErr' = conns[c].err
                  ELSE startPc' = "accept" /\ UNCHANGED startErr
    /\ UNCHANGED startFrame

NextStart ==
    \/ BootGET
    \/ BootUse
    \/ StartListen
    \/ \E c \in StartConns : StartAccept(c)
    \/ StartAcceptFails
    \/ \E c \in StartConns : ServeRead(c)
    \/ \E c \in StartConns : ServeLookup(c)
    \/ \E c \in StartConns : ServeDispatch(c, FALSE)
    \/ \E c \in StartConns : ServeWrite(c)
    \/ \E c \in StartConns : ServeClose(c)
    \/ \E c \in StartConns : Send(c)
    \/ StartSelect

InitStart ==
    /\ routes = <<>> /\ middlewares = <<>>
    /\ patternGroup = <<>> /\ groupArg = <<>> /\ regs = <<>>
    /\ conns = [c \in StartConns |-> IdleConn]
    /\ crashed = FALSE
    /\ InitConc
    /\ InitAside
    /\ ctx = newCtx(Healthy) /\ calls = <<>>
    /\ mPattern = <<>> /\ mPath = <<>> /\ mRes = NotCalled

SpecStart == InitStart /\ [][NextStart]_vars

\* the scheduler runs the loop at its select and a goroutine at its send
\* whenever they can take the step; whether another client connects, and
\* whether a client sends its request, is not up to the program
FairStart ==
    /\ WF_vars(StartSelect)
    /\ \A c \in StartConns : WF_vars(Send(c))

SpecStartFair == SpecStart /\ FairStart

----------------------------------------------------------------------------
(* The request body (part_001:118-129) and its decoders, ParseJSON and      *)
(* ParseForm (context.go:106-128).  ctx.body is a strings.Reader behind     *)
(* io.NopCloser: Close does nothing, reading moves a position.              *)

\* bytes a json.Decoder asks of its reader at a time
DecoderRead == 512

RECURSIVE IndexOfEmpty(_, _)
\* the position of the first empty line from position i on, 0 when none
IndexOfEmpty(connection, i) ==
    IF i > Len(connection) THEN 0
    ELSE IF connection[i] = <<>> THEN i
    ELSE IndexOfEmpty(connection, i + 1)

\* the loop over connection and setBody: the lines after the first empty
\* line, joined; no body when there is no empty line or nothing after it
setBody(raw) ==
    LET connection == Split(raw, "\r\n")
        e == IndexOfEmpty(connection, 1)
    IN  IF e # 0 /\ Len(connection) > e
        THEN [read |-> TRUE, set |-> TRUE,
              data |-> Join(SubSeq(connection, e + 1, Len(connection)), "\r\n"),
              pos |-> 0]
        ELSE [read |-> TRUE, set |-> FALSE, data |-> <<>>, pos |-> 0]

\* what is left to read
Unread(b) == SubSeq(b.data, b.pos + 1, Len(b.data))

\* json.Decoder.Decode on the bytes its first read returns: one JSON value
\* at the front, here {} or a digit; what follows the value is not looked at
jsonDecode(bytes) ==
    IF bytes = <<>> THEN [err |-> "EOF", value |-> <<>>]
    ELSE IF bytes[1] = "{"
    THEN IF Len(bytes) = 1 THEN [err |-> "unexpected EOF", value |-> <<>>]
         ELSE IF bytes[2] = "}" THEN [err |-> "nil", value |-> <<"{", "}">>]
         ELSE [err |-> "syntax", value |-> <<>>]
    ELSE IF bytes[1] \in {"1", "2"} THEN [err |-> "nil", value |-> <<bytes[1]>>]
    ELSE [err |-> "syntax", value |-> <<>>]

\* url.QueryUnescape without escapes: + is a space
QueryUnescape(s) == [k \in 1..Len(s) |-> IF s[k] = "+" THEN " " ELSE s[k]]

\* strings.Cut(s, "="): before and after the first =
CutKey(s) == IF IndexOf(s, "=", 1) = 0 THEN s ELSE SubSeq(s, 1, IndexOf(s, "=", 1) - 1)
CutValue(s) == IF IndexOf(s, "=", 1) = 0 THEN <<>> ELSE SubSeq(s, IndexOf(s, "=", 1) + 1, Len(s))

RECURSIVE parseQueryLoop(_, _)
\* the loop of url.ParseQuery over the &-separated pairs: a pair with a
\* semicolon is an error and is skipped, an empty pair is skipped
parseQueryLoop(pairs, acc) ==
    IF pairs = <<>> THEN acc
    ELSE LET pair == pairs[1] IN
         IF IndexOf(pair, ";", 1) # 0
         THEN parseQueryLoop(Tail(pairs), [acc EXCEPT !.err = "semicolon"])
         ELSE IF pair = <<>> THEN parseQueryLoop(Tail(pairs), acc)
         ELSE LET key == QueryUnescape(CutKey(pair))
                  val == QueryUnescape(CutValue(pair))
                  old == IF key \in DOMAIN acc.value THEN acc.value[key] ELSE <<>>
              IN  parseQueryLoop(Tail(pairs),
                      [acc EXCEPT !.value = MapSet(@, key, Append(old, val))])

ParseQuery(query) ==
    IF query = <<>> THEN [err |-> "nil", value |-> EmptyMap]
    ELSE parseQueryLoop(Split(query, "&"), [err |-> "nil", value |-> EmptyMap])

Min(a, b) == IF a < b THEN a ELSE b

\* c.ParseJSON(v): [b, err, value], b the reader afterwards
ParseJSON(b) ==
    IF ~b.set THEN [b |-> b, err |-> "nobody", value |-> <<>>]
    ELSE LET n == Min(Len(b.data) - b.pos, DecoderRead)
             d == jsonDecode(SubSeq(b.data, b.pos + 1, b.pos + n))
         IN  [b |-> [b EXCEPT !.pos = b.pos + n], err |-> d.err, value |-> d.value]

\* c.ParseForm(): io.ReadAll reads to the end and reports no error at the end
ParseForm(b) ==
    IF ~b.set THEN [b |-> b, err |-> "nobody", value |-> EmptyMap]
    ELSE LET q == ParseQuery(Unread(b))
         IN  [b |-> [b EXCEPT !.pos = Len(b.data)], err |-> q.err, value |-> q.value]

MaxParses == 3  \* decode calls on one context

BodyOf(text) == RawRequest(MethodPost, <<"/", "a">>) \o text
BodyRequests ==
    {BodyOf(<<"{", "}">>), BodyOf(<<"a", "=", "1">>), BodyOf(<<"a", "=", "1", "&", "a", "=", "2">>),
     BodyOf(<<"1">>), BodyOf(<<"{">>), BodyOf(<<"a", "+", "b", ";", "c">>), BodyOf(<<>>),
     BodyOf(<<"{", "}", "\r\n", "{", "}">>),
     <<"POST", " ", "/", "a", " ", "HTTP/1.1">>}

bodyFrame == <<mPattern, mPath, mRes, ctx, calls, serverVars, concVars, startVars, statics>>

\* ServeHTTP reads the request and sets the body
ReadBody ==
    /\ ~reqBody.read
    /\ \E raw \in BodyRequests : reqBody' = setBody(raw)
    /\ UNCHANGED <<parses, bodyFrame>>

Parsed(r, op) ==
    /\ reqBody' = r.b
    /\ parses' = Append(parses, [op |-> op, err |-> r.err, value |-> r.value])
    /\ UNCHANGED bodyFrame

CallParseJSON ==
    /\ reqBody.read
    /\ Len(parses) < MaxParses
    /\ Parsed(ParseJSON(reqBody), "ParseJSON")

CallParseForm ==
    /\ reqBody.read
    /\ Len(parses) < MaxParses
    /\ Parsed(ParseForm(reqBody), "ParseForm")

NextBody ==
    \/ ReadBody
    \/ CallParseJSON
    \/ CallParseForm

SpecBody == Init /\ [][NextBody]_vars

----------------------------------------------------------------------------------------------------------------------------------------
(* The earlier server of src/vermouth.go:134-322: New makes one context for *)
(* the server, Start stores each accepted connection into it, and ServeHTTP *)
(* takes no argument: it reads and answers through v.context.  There is no  *)
(* mutex.  A step of a goroutine is at most one access to the context or    *)
(* one conn.Write.                                                          *)

RECURSIVE oldMatchLoop(_, _, _, _)
\* the loop of the earlier matchRoute (src/vermouth.go:290-296)
oldMatchLoop(patternParts, pathParts, i, params) ==
    IF i > Len(patternParts) THEN Matched(params)
    ELSE IF HasPrefix(patternParts[i], ":")
    THEN oldMatchLoop(patternParts, pathParts, i + 1,
             MapSet(params, Tail(patternParts[i]), pathParts[i]))
    ELSE IF patternParts[i] # pathParts[i] THEN NoMatch
    ELSE oldMatchLoop(patternParts, pathParts, i + 1, params)

\* the earlier matchRoute: the segment counts are compared first
oldMatchRoute(pattern, path) ==
    IF Len(Split(pattern, "/")) # Len(Split(path, "/")) THEN NoMatch
    ELSE oldMatchLoop(Split(pattern, "/"), Split(path, "/"), 1, EmptyMap)

RECURSIVE oldScanRoutes(_, _, _, _)
\* the loop over v.routes (src/vermouth.go:259-265)
oldScanRoutes(rs, i, method, path) ==
    IF i > Len(rs) THEN NoHandler
    ELSE LET m == oldMatchRoute(rs[i].pattern, path)
         IN  IF m.ok /\ rs[i].method = method
             THEN [handler |-> rs[i].handler, params |-> m.params, panic |-> FALSE]
             ELSE oldScanRoutes(rs, i + 1, method, path)

\* a goroutine of Start that has not been started.  conn is the connection
\* it has taken from the context for the call it is about to make, readFrom
\* the connection its ServeHTTP has read, wroteTo the connections it has
\* written; code, contentType and text are the arguments of the response
\* method it is in, keys the header names its range loop has still to yield,
\* key and value what the loop yielded last
IdleWorker ==
    [pc |-> "idle", conn |-> "none", method |-> <<>>, path |-> <<>>, handler |-> 0,
     readFrom |-> "none", wroteTo |-> {},
     code |-> 0, contentType |-> "", text |-> <<>>, keys |-> <<>>,
     key |-> "", value |-> <<>>]

\* a connection with what its client sent, not yet read
ClientSock(raw, writesLeft) ==
    [wire |-> <<>>, closed |-> FALSE, writesLeft |-> writesLeft,
     inbox |-> raw, taken |-> FALSE]

SharedMethods == {MethodGet, MethodPost, MethodPut, MethodDelete, MethodPatch}
SharedRequests == {RawRequest(MethodGet, <<"/", "a">>), RawRequest(MethodPost, <<"/", "b">>),
                   <<"GET", "\r\n", "\r\n">>, <<>>}

sharedFrame == <<mPattern, mPath, mRes, ctx, calls, middlewares, patternGroup, groupArg,
                 regs, conns, mu, reg, statics, bodyVars>>

\* v.GET, v.POST, v.PUT, v.DELETE, v.PATCH before Start
\* (src/vermouth.go:164-186)
OldRegister ==
    /\ ~crashed
    /\ startPc = "new"
    /\ Len(routes) < MaxOldRoutes
    /\ \E method \in SharedMethods, pattern \in ConcPatterns :
          routes' = handleFunc(method, pattern)
    /\ UNCHANGED <<sharedFrame, crashed, units, ctxs, socks, startVars>>

\* net.Listen; log.Fatal when it fails (src/vermouth.go:302-306)
OldListen ==
    /\ ~crashed
    /\ startPc = "new"
    /\ \E ok \in BOOLEAN :
          IF ok THEN startPc' = "accept" /\ UNCHANGED crashed
          ELSE crashed' = TRUE /\ UNCHANGED startPc
    /\ UNCHANGED <<sharedFrame, routes, units, ctxs, socks, startErr>>

\* l.Accept(), v.context.setConn(conn) and the go statement
\* (src/vermouth.go:309-319); connections are named in the order of their
\* acceptance
OldAccept(k) ==
    /\ ~crashed
    /\ startPc = "accept"
    /\ units[k].pc = "idle"
    /\ k = "u2" => units["u1"].pc # "idle"
    /\ \E raw \in SharedRequests, w \in ConcWrites :
          socks' = [socks EXCEPT ![k] = ClientSock(raw, w)]
    /\ ctxs' = [ctxs EXCEPT !["v"].conn = k]
    /\ units' = [units EXCEPT ![k].pc = "getConn"]
    /\ UNCHANGED <<sharedFrame, routes, crashed, startVars>>

\* l.Accept() fails: Start returns the error (src/vermouth.go:309-312)
OldAcceptFails ==
    /\ ~crashed
    /\ startPc = "accept"
    /\ startPc' = "returned"
    /\ startErr' = "accept"
    /\ UNCHANGED <<sharedFrame, routes, crashed, units, ctxs, socks>>

\* v.context.getConn() of src/vermouth.go:190: the connection the context
\* names now
OldGetConn(k) ==
    /\ ~crashed
    /\ units[k].pc = "getConn"
    /\ units' = [units EXCEPT ![k].pc = "read", ![k].conn = ctxs["v"].conn]
    /\ UNCHANGED <<sharedFrame, routes, crashed, ctxs, socks, startVars>>

\* Read(data) on the connection taken, and the request line
\* (src/vermouth.go:190-200).  A read of a connection that is closed, or
\* whose peer closed without sending, returns an error every time; a read
\* waits while the request of the connection has been read already;
\* reqLine[1] panics when the request line has no second token: the
\* deferred conn.Close() of the goroutine (317) runs on the connection that
\* was accepted for it, then the process ends
OldRead(k) ==
    /\ ~crashed
    /\ units[k].pc = "read"
    /\ LET conn == units[k].conn
           s == socks[conn]
           reqLine == Split(Split(s.inbox, "\r\n")[1], " ")
       IN  /\ s.closed \/ s.inbox = <<>> \/ ~s.taken
           /\ IF s.closed \/ s.inbox = <<>>
              THEN /\ units' = [units EXCEPT ![k].pc = "close", ![k].readFrom = conn,
                                             ![k].conn = "none"]
                   /\ UNCHANGED <<crashed, socks>>
              ELSE IF Len(reqLine) < 2
              THEN /\ crashed' = TRUE
                   /\ units' = [units EXCEPT ![k].readFrom = conn, ![k].conn = "none"]
                   /\ socks' = [[socks EXCEPT ![conn].taken = TRUE]
                                   EXCEPT ![k].closed = TRUE]
              ELSE /\ units' = [units EXCEPT ![k].pc = "lookup", ![k].readFrom = conn,
                                             ![k].conn = "none",
                                             ![k].method = reqLine[1],
                                             ![k].path = reqLine[2]]
                   /\ socks' = [socks EXCEPT ![conn].taken = TRUE]
                   /\ UNCHANGED crashed
    /\ UNCHANGED <<sharedFrame, routes, ctxs, startVars>>

\* the scan, then v.context.setParams(params) (src/vermouth.go:256-268) or
\* v.context.Err404() is entered (274, context.go:187-189)
OldLookup(k) ==
    /\ ~crashed
    /\ units[k].pc = "lookup"
    /\ LET found == oldScanRoutes(routes, 1, units[k].method, units[k].path)
       IN  IF found.handler # 0
           THEN /\ units' = [units EXCEPT ![k].pc = "handler",
                                          ![k].handler = found.handler]
                /\ ctxs' = [ctxs EXCEPT !["v"].params = found.params]
           ELSE /\ units' = [units EXCEPT ![k].pc = "status",
                                          ![k].code = StatusNotFound,
                                          ![k].contentType = "text/html",
                                          ![k].text = NotFoundHTML]
                /\ UNCHANGED ctxs
    /\ UNCHANGED <<sharedFrame, routes, crashed, socks, startVars>>

\* handler(v.context) (src/vermouth.go:269), the README's handler of "/:id":
\* id := c.Params("id"), read from the context, and c.String is entered
OldHandler(k) ==
    /\ ~crashed
    /\ units[k].pc = "handler"
    /\ units' = [units EXCEPT ![k].pc = "status",
                              ![k].code = StatusOK,
                              ![k].contentType = "text/plain",
                              ![k].text = UserID(Params(ctxs["v"].params, <<"i", "d">>))]
    /\ UNCHANGED <<sharedFrame, routes, crashed, ctxs, socks, startVars>>

\* goroutines whose next step reads or writes the header map of the context
AtHeaders == {j \in Units : units[j].pc \in {"setType", "setLength", "range", "yield"}}

\* c.SetHeader("Content-Type", ...) and c.SetHeader("Content-Length", ...)
\* of String and Err404 (context.go:130-132, 139-140, 194-195): a write of
\* the map every goroutine shares; while another goroutine is at the map the
\* Go runtime may end the process (concurrent map writes)
OldSetHeader(k) ==
    /\ ~crashed
    /\ units[k].pc \in {"setType", "setLength"}
    /\ \/ /\ ctxs' = [ctxs EXCEPT !["v"].headers =
                        IF units[k].pc = "setType"
                        THEN MapSet(@, "Content-Type", <<units[k].contentType>>)
                        ELSE MapSet(@, "Content-Length", Itoa(Len(units[k].text)))]
          /\ units' = [units EXCEPT ![k].pc =
                          IF units[k].pc = "setType" THEN "setLength" ELSE "range"]
          /\ UNCHANGED crashed
       \/ /\ AtHeaders \ {k} # {}
          /\ crashed' = TRUE
          /\ UNCHANGED <<units, ctxs>>
    /\ UNCHANGED <<sharedFrame, routes, socks, startVars>>

\* Write's writeHeaders tests len(c.headers) and begins its range over
\* c.headers (context.go:73, 229-234): the order is the map's
OldRange(k) ==
    /\ ~crashed
    /\ units[k].pc = "range"
    /\ \E order \in Orders(DOMAIN ctxs["v"].headers) :
          units' = [units EXCEPT ![k].pc = "yield", ![k].keys = order]
    /\ UNCHANGED <<sharedFrame, routes, crashed, ctxs, socks, startVars>>

\* for key, value := range c.headers (context.go:234): the iterator is
\* called before every loop body and once more after the last one; the
\* loop's variables take the next key and the value the map holds for it
\* now, or the loop ends
OldYield(k) ==
    /\ ~crashed
    /\ units[k].pc = "yield"
    /\ IF units[k].keys = <<>>
       THEN units' = [units EXCEPT ![k].pc = "blank"]
       ELSE LET key == units[k].keys[1] IN
            units' = [units EXCEPT ![k].pc = "header", ![k].keys = Tail(@),
                                   ![k].key = key, ![k].value = ctxs["v"].headers[key]]
    /\ UNCHANGED <<sharedFrame, routes, crashed, ctxs, socks, startVars>>

\* c.conn of c.conn.Write(...) (context.go:90, 219, 235, 241): the
\* connection the context names now is the one the write goes to
OldConn(k) ==
    /\ ~crashed
    /\ units[k].pc \in {"status", "header", "blank", "body"}
    /\ units[k].conn = "none"
    /\ units' = [units EXCEPT ![k].conn = ctxs["v"].conn]
    /\ UNCHANGED <<sharedFrame, routes, crashed, ctxs, socks, startVars>>

\* what the goroutine writes next: the status line (context.go:219), the
\* header line of the key and value its range yielded (235), the blank line
\* (241) or the body (90)
OldBytes(k) ==
    LET un == units[k] IN
    CASE un.pc = "status" -> StatusLine(un.code)
      [] un.pc = "header" -> HeaderLine(un.key, un.value)
      [] un.pc = "blank" -> <<"\r\n">>
      [] un.pc = "body" -> un.text

\* where the goroutine goes after a write
OldAfterWrite(k) ==
    LET un == units[k] IN
    CASE un.pc = "status" -> "wrote"
      [] un.pc = "header" -> "yield"
      [] un.pc = "blank" -> "body"
      [] un.pc = "body" -> "close"

\* c.didWriteHTTP1Header = true, or false after a failed write
\* (context.go:221, 225): a store to the context every goroutine shares.
\* After the store of false writeHTTP1Header returns the error
OldFlag(k) ==
    /\ ~crashed
    /\ units[k].pc \in {"wrote", "failed"}
    /\ ctxs' = [ctxs EXCEPT !["v"].didWriteHTTP1Header = (units[k].pc = "wrote")]
    /\ units' = [units EXCEPT ![k].pc = IF units[k].pc = "wrote" THEN "setType"
                                        ELSE "fatal"]
    /\ UNCHANGED <<sharedFrame, routes, crashed, socks, startVars>>

\* log.Fatal (context.go:87, 137, 192) after a failed write of the status
\* line or of the headers: the process ends, no deferred call runs
OldFatal(k) ==
    /\ ~crashed
    /\ units[k].pc = "fatal"
    /\ crashed' = TRUE
    /\ UNCHANGED <<sharedFrame, routes, units, ctxs, socks, startVars>>

\* Write(...) on the connection taken, one write of a response
\* (context.go:90, 219, 235, 241).  A failed write of the status line goes
\* on to the store of the flag, a failed write of the headers to log.Fatal;
\* a failed write of the body is returned and logged
\* (src/vermouth.go:270-277)
OldWrite(k) ==
    /\ ~crashed
    /\ units[k].pc \in {"status", "header", "blank", "body"}
    /\ units[k].conn # "none"
    /\ LET un == units[k]
           conn == un.conn
           w == connWrite(Bind(ctxs["v"], socks[conn]), un.pc, OldBytes(k))
       IN  IF w.err # "nil"
           THEN /\ units' = [units EXCEPT
                               ![k].pc = CASE un.pc = "status" -> "failed"
                                           [] un.pc = "body" -> "close"
                                           [] OTHER -> "fatal",
                               ![k].conn = "none"]
                /\ UNCHANGED <<crashed, socks>>
           ELSE /\ socks' = [socks EXCEPT ![conn].wire = w.c.wire,
                                          ![conn].writesLeft = w.c.writesLeft]
                /\ units' = [units EXCEPT ![k].pc = OldAfterWrite(k),
                                          ![k].conn = "none",
                                          ![k].wroteTo = @ \cup {conn}]
                /\ UNCHANGED crashed
    /\ UNCHANGED <<sharedFrame, routes, ctxs, startVars>>

\* the deferred conn.Close() of the goroutine, on the connection accepted
\* for it (src/vermouth.go:316-319)
OldClose(k) ==
    /\ ~crashed
    /\ units[k].pc = "close"
    /\ socks' = [socks EXCEPT ![k].closed = TRUE]
    /\ units' = [units EXCEPT ![k].pc = "done"]
    /\ UNCHANGED <<sharedFrame, routes, crashed, ctxs, startVars>>

NextShared ==
    \/ OldRegister
    \/ OldListen
    \/ \E k \in Units : OldAccept(k)
    \/ OldAcceptFails
    \/ \E k \in Units : OldGetConn(k)
    \/ \E k \in Units : OldRead(k)
    \/ \E k \in Units : OldLookup(k)
    \/ \E k \in Units : OldHandler(k)
    \/ \E k \in Units : OldSetHeader(k)
    \/ \E k \in Units : OldRange(k)
    \/ \E k \in Units : OldYield(k)
    \/ \E k \in Units : OldConn(k)
    \/ \E k \in Units : OldWrite(k)
    \/ \E k \in Units : OldFlag(k)
    \/ \E k \in Units : OldFatal(k)
    \/ \E k \in Units : OldClose(k)

\* New() of src/vermouth.go:157-162: no route, one context without connection
InitShared ==
    /\ routes = <<>> /\ middlewares = <<>>
    /\ patternGroup = <<>> /\ groupArg = <<>> /\ regs = <<>>
    /\ conns = [c \in Conns |-> IdleConn]
    /\ crashed = FALSE
    /\ mu = Free /\ reg = IdleReg
    /\ units = [k \in Units |-> IdleWorker]
    /\ ctxs = [id \in {"v"} |-> CtxPart("none")]
    /\ socks = [k \in Units |-> ClientSock(<<>>, Healthy)]
    /\ InitAside
    /\ ctx = newCtx(Healthy) /\ calls = <<>>
    /\ mPattern = <<>> /\ mPath = <<>> /\ mRes = NotCalled

SpecShared == InitShared /\ [][NextShared]_vars

----------------------------------------------------------------------------
(* The vocabulary of the claims about matchRoute. *)

PatternSegs == Split(mPattern, "/")
PathSegs == Split(mPath, "/")

IsCapture(seg) == HasPrefix(seg, ":")
IsWildcard(seg) == IsCapture(seg) /\ HasSuffix(seg, "*")
IsNamed(seg) == IsCapture(seg) /\ ~HasSuffix(seg, "*")
IsLiteral(seg) == ~IsCapture(seg)
CaptureName(seg) == IF IsWildcard(seg) THEN TrimSuffix(Tail(seg), "*") ELSE Tail(seg)

HasWildcard(segs) == \E i \in 1..Len(segs) : IsWildcard(segs[i])
\* the position of the first wildcard segment, Len + 1 when there is none
FirstWildcard(segs) ==
    IF HasWildcard(segs)
    THEN CHOOSE i \in 1..Len(segs) :
            IsWildcard(segs[i]) /\ \A j \in 1..(i - 1) : ~IsWildcard(segs[j])
    ELSE Len(segs) + 1

\* what the claims say a capture segment at position i is bound to
CapturedAt(i) ==
    IF IsWildcard(PatternSegs[i])
    THEN Join(SubSeq(PathSegs, i, Len(PathSegs)), "/")
    ELSE PathSegs[i]

\* the capture segments that matching reaches: up to the first wildcard
CapturePositions ==
    {i \in 1..Len(PatternSegs) :
        IsCapture(PatternSegs[i]) /\ i <= FirstWildcard(PatternSegs)}

CaptureNames == {CaptureName(PatternSegs[i]) : i \in CapturePositions}

\* a later capture segment of the same name overwrites this one
Overwritten(i) ==
    \E j \in CapturePositions :
        j > i /\ CaptureName(PatternSegs[j]) = CaptureName(PatternSegs[i])

\* C3 (as claimed): a match requires every literal pattern segment before the
\* first wildcard, the empty segment included, to equal the path segment at
\* the same position.
C3_LiteralsEqual ==
    (mRes.called /\ mRes.ok) =>
        \A i \in 1..Len(PatternSegs) :
            (IsLiteral(PatternSegs[i]) /\ i < FirstWildcard(PatternSegs)) =>
                (i <= Len(PathSegs) /\ PathSegs[i] = PatternSegs[i])

\* C4 (as claimed): on a match, every :name segment up to the first wildcard
\* is bound to the path segment at its position, a :name* segment to the
\* '/'-join of the path segments from its position on, and there are no other
\* keys.
C4_EveryCaptureBound ==
    (mRes.called /\ mRes.ok) =>
        /\ DOMAIN mRes.params = CaptureNames
        /\ \A i \in CapturePositions :
              /\ i <= Len(PathSegs) + 1
              /\ mRes.params[CaptureName(PatternSegs[i])] = CapturedAt(i)

\* C4 (amended): as C4, except that when a name occurs in several capture
\* segments the last of them, up to and including the first wildcard,
\* determines the binding.
C4_LastCaptureBound ==
    (mRes.called /\ mRes.ok) =>
        /\ DOMAIN mRes.params = CaptureNames
        /\ \A i \in CapturePositions :
              ~Overwritten(i) =>
                  /\ i <= Len(PathSegs) + 1
                  /\ mRes.params[CaptureName(PatternSegs[i])] = CapturedAt(i)

\* a match with a named capture and a wildcard capture of different names,
\* the wildcard taking more than one path segment
C4_Witness ==
    /\ mRes.called /\ mRes.ok
    /\ \E i, j \in CapturePositions :
          /\ IsNamed(PatternSegs[i]) /\ IsWildcard(PatternSegs[j])
          /\ CaptureName(PatternSegs[i]) # CaptureName(PatternSegs[j])
          /\ Len(PathSegs) > j
          /\ mRes.params[CaptureName(PatternSegs[i])] # <<>>

\* C5: a pattern without a wildcard segment never matches a path with a
\* different number of segments; so /a and /a/ never match each other.
C5_SegmentCount ==
    (mRes.called /\ ~HasWildcard(PatternSegs) /\ Len(PatternSegs) # Len(PathSegs))
        => ~mRes.ok

\* the path is the pattern plus a trailing slash, every segment before it
\* agreeing, and matchRoute has said no
C5_Witness ==
    /\ mRes.called /\ ~mRes.ok
    /\ ~HasWildcard(PatternSegs)
    /\ Len(mPattern) >= 2
    /\ mPath = mPattern \o <<"/">>


----------------------------------------------------------------------------
(* The claims about the response context. *)

RECURSIVE Flatten(_)
Flatten(chunks) ==
    IF chunks = <<>> THEN <<>> ELSE chunks[1].bytes \o Flatten(Tail(chunks))

\* the bytes on the connection, in the order written
WireBytes == Flatten(ctx.wire)

\* a length below 100 in decimal
Decimal(n) ==
    IF n < 10 THEN <<Digits[n + 1]>> ELSE <<Digits[(n \div 10) + 1], Digits[(n % 10) + 1]>>

CRLF == <<"\r\n">>
ContentLengthLine(n) == <<"Content-Length", ": ">> \o Decimal(n) \o CRLF
ContentTypeLine(t) == <<"Content-Type", ": ", t>> \o CRLF

\* a response of the two headers in either order
Framed(statusLine, contentType, body) ==
    {statusLine \o hs \o CRLF \o body :
        hs \in {ContentTypeLine(contentType) \o ContentLengthLine(Len(body)),
                ContentLengthLine(Len(body)) \o ContentTypeLine(contentType)}}

FirstCallIs(op) == calls # <<>> /\ calls[1].op = op

\* C7: on a fresh context whose connection accepts every write,
\* String(body, 200) returns no error and the connection holds exactly
\* "HTTP/1.1 200 OK\r\n", one Content-Type and one Content-Length: N line,
\* a blank line, and the N body bytes.
C7_StringFraming ==
    (Len(calls) = 1 /\ FirstCallIs("String") /\ calls[1].code = 200
        /\ ctx.writesLeft = Healthy) =>
        /\ calls[1].err = "nil"
        /\ WireBytes \in Framed(<<"HTTP/1.1 ", "2", "0", "0", " ", "OK", "\r\n">>,
                                 "text/plain", calls[1].arg)

\* String with a body of 11 bytes has returned
C7_Witness ==
    /\ Len(calls) = 1 /\ FirstCallIs("String") /\ calls[1].code = 200
    /\ ctx.writesLeft = Healthy
    /\ Len(calls[1].arg) = 11
    /\ Len(ctx.wire) = 5

Sites(site) == {i \in 1..Len(ctx.wire) : ctx.wire[i].site = site}

\* C8 (as claimed): whatever response methods are called, the first write to
\* the connection is a status line, header lines come after it and before
\* the blank line, and body bytes after the blank line.
C8_WireOrder ==
    /\ ctx.wire # <<>> => ctx.wire[1].site = "status"
    /\ \A i \in Sites("header") : \A j \in Sites("blank") : i < j
    /\ \A i \in Sites("body") : \E j \in Sites("blank") : j < i

\* C15 (as claimed): whatever response methods are called on one context, and
\* however often, the connection receives at most one status line and at
\* most one blank line ending a header block, and no header line after body
\* bytes.
C15_ExactlyOnce ==
    /\ Cardinality(Sites("status")) <= 1
    /\ Cardinality(Sites("blank")) <= 1
    /\ \A i \in Sites("header") : \A j \in Sites("body") : i < j

\* C10: Redirect(location) on a fresh context whose connection accepts every
\* write writes the 302 status line, the Location line and the blank line,
\* closes the connection, and whatever is called afterwards no further byte
\* reaches the connection.
C10_RedirectFraming ==
    (FirstCallIs("Redirect") /\ ctx.writesLeft = Healthy) =>
        /\ calls[1].err = "nil"
        /\ ctx.closed
        /\ Len(ctx.wire) = 3
        /\ ctx.wire[1].site = "status"
        /\ SubSeq(ctx.wire[1].bytes, 1, 4) = <<"HTTP/1.1 ", "3", "0", "2">>
        /\ ctx.wire[2].bytes = <<"Location", ": ">> \o calls[1].arg \o CRLF
        /\ ctx.wire[3].bytes = CRLF

\* a response method that writes has been called after Redirect
C10_Witness ==
    /\ FirstCallIs("Redirect") /\ ctx.writesLeft = Healthy
    /\ Len(calls) = 2 /\ calls[2].op = "String"
    /\ ctx.closed


----------------------------------------------------------------------------
(* The claims about the server. *)

\* A(before) ... H ... A(after) for the middlewares in registration order
ExpectedTrace(mws, h) ==
    [i \in 1..Len(mws) |-> <<"before", mws[i]>>]
        \o << <<"handler", h>> >>
        \o [i \in 1..Len(mws) |-> <<"after", mws[Len(mws) + 1 - i]>>]

\* C1: when a matched handler has run and returned, with the middlewares
\* mw[0..n-1] registered at that time, the calls of the request were
\* mw[0](before), ..., mw[n-1](before), H, mw[n-1](after), ..., mw[0](after).
C1_MiddlewareOrder ==
    \A c \in Conns :
        (conns[c].pc = "done" /\ conns[c].handler # 0 /\ ~conns[c].ctx.fatal) =>
            conns[c].trace = ExpectedTrace(conns[c].wrapped, conns[c].handler)

\* a handler has run inside two middlewares
C1_Witness ==
    \E c \in Conns :
        /\ conns[c].pc = "done" /\ conns[c].handler # 0 /\ ~conns[c].ctx.fatal
        /\ Len(conns[c].wrapped) = 2
        /\ Len(conns[c].trace) = 5

\* route i matches the request of connection c
RouteMatches(i, c) ==
    /\ matchRoute(routes[i].pattern, conns[c].path).ok
    /\ routes[i].method = conns[c].method

\* the first of the routes the scan of c saw that matches its request, 0 if none
FirstMatch(c) ==
    IF \E i \in 1..conns[c].scanned : RouteMatches(i, c)
    THEN CHOOSE i \in 1..conns[c].scanned :
            RouteMatches(i, c) /\ \A j \in 1..(i - 1) : ~RouteMatches(j, c)
    ELSE 0

HandlersRun(c) == SelectSeq(conns[c].trace, LAMBDA e : e[1] = "handler")

\* the scan of c is about to begin, or has ended in a panic of matchRoute
AtScan(c) == conns[c].pc = "lookup"

\* some route of the table matches the request of c
SomeRouteMatches(c) == \E i \in 1..Len(routes) : RouteMatches(i, c)

\* C2 (as claimed): for any registrations and any request that a route
\* matches, the scan chooses a handler, the handler chosen is that of the
\* first route in registration order whose pattern matches the path and whose
\* method is the request's, and when ServeHTTP is done that handler and no
\* other has run.
C2_FirstRouteWins ==
    \A c \in Conns :
        /\ (AtScan(c) /\ SomeRouteMatches(c)) => conns[c].err # "panic"
        /\ (conns[c].looked /\ FirstMatch(c) # 0) =>
              /\ conns[c].handler = routes[FirstMatch(c)].handler
              /\ conns[c].pc = "done" =>
                    HandlersRun(c) = << <<"handler", routes[FirstMatch(c)].handler>> >>

\* Group's prefix as the claim has it: one trailing slash cut
Stripped(prefix) ==
    IF prefix # <<>> /\ prefix[Len(prefix)] = "/"
    THEN SubSeq(prefix, 1, Len(prefix) - 1) ELSE prefix

\* C6 (as claimed): a pattern registered through the registrar Group returned
\* is stored as prefix + pattern, and a pattern registered through the server
\* itself, before or after Group, is stored as given.
C6_GroupScoping ==
    \A i \in 1..Len(regs) :
        routes[i].pattern =
            IF regs[i].via = "g" THEN Stripped(regs[i].prefix) \o regs[i].pattern
            ELSE regs[i].pattern

NotFoundPage ==
    <<"<", "h", "1", ">", "E", "r", "r", "o", "r", " ", "4", "0", "4", " ",
      "N", "o", "t", " ", "F", "o", "u", "n", "d", "<", "/", "h", "1", ">">>

\* a 404 response: a status line of code 404, whatever its reason phrase,
\* then Content-Type, Content-Length: 28, a blank line and the fixed page
IsNotFoundResponse(wire) ==
    /\ wire # <<>>
    /\ wire[1].site = "status"
    /\ Len(wire[1].bytes) >= 4
    /\ SubSeq(wire[1].bytes, 1, 4) = <<"HTTP/1.1 ", "4", "0", "4">>
    /\ Len(NotFoundPage) = 28
    /\ Flatten(Tail(wire)) \in Framed(<<>>, "text/html", NotFoundPage)

\* C9 (as claimed): for every request that no registered route matches, the
\* scan ends without a handler, and when ServeHTTP is done on a connection
\* that accepts every write, no handler has run and the connection holds a
\* status line of code 404, Content-Type and Content-Length: 28, a blank
\* line and the fixed page.
C9_NotFound ==
    \A c \in Conns :
        /\ (AtScan(c) /\ ~SomeRouteMatches(c)) => conns[c].err # "panic"
        /\ (conns[c].pc = "done" /\ conns[c].looked /\ FirstMatch(c) = 0
              /\ conns[c].ctx.writesLeft = Healthy) =>
              /\ conns[c].trace = <<>>
              /\ conns[c].err = "nil"
              /\ IsNotFoundResponse(conns[c].ctx.wire)

----------------------------------------------------------------------------
(* The claims about ServeHTTP calls that run at once. *)

\* the path segment that the pattern /:i captures from the request of u
OwnSegment(u) == Split(units[u].path, "/")[2]

\* the handler of u has been called and has not returned
InHandler(u) == units[u].pc \in {"handler", "registered", "respond", "string"}

\* ServeHTTP of u is past v.mu.Unlock(): wrapping, in the handler or the
\* middlewares, answering 404, returning
PastUnlock(u) ==
    units[u].pc \in {"wrapinit", "wrap", "setparams", "handler", "registered",
                     "respond", "string", "notfound", "err404", "close", "done"}

ChunksOn(u, site) ==
    {socks[u].wire[k].bytes : k \in {k \in 1..Len(socks[u].wire) :
                                        socks[u].wire[k].site = site}}

\* C11: with two ServeHTTP calls under way at once, every context is used by
\* one call only, c.Params("id") in a handler is the segment of its own
\* request path, and on each connection the X-Id line and the body
\* of a 200 response carry the segment of the request read from it, the
\* body after "User ID: ".
C11_Isolation ==
    \A u \in Units :
        /\ \A v \in Units \ {u} :
              units[u].ctx # "none" => units[u].ctx # units[v].ctx
        /\ InHandler(u) =>
              Params(ctxs[units[u].ctx].params, <<"i", "d">>) = OwnSegment(u)
        /\ \A line \in ChunksOn(u, "header") :
              line[1] = "X-Id" => line = HeaderLine("X-Id", OwnSegment(u))
        /\ \A line \in ChunksOn(u, "status") :
              line = StatusLine(StatusOK) => ChunksOn(u, "body") \subseteq {UserID(OwnSegment(u))}

\* both handlers are in the middle of c.String, for different paths: one
\* connection holds the status line and one header line, the other the
\* status line and two header lines, the X-Id line among them
C11_Witness ==
    /\ units["u1"].pc = "string" /\ units["u2"].pc = "string"
    /\ units["u1"].path # units["u2"].path
    /\ Len(socks["u1"].wire) = 2 /\ Len(socks["u2"].wire) = 3
    /\ \E line \in ChunksOn("u2", "header") : line[1] = "X-Id"
    /\ ctxs[units["u1"].ctx].headers # ctxs[units["u2"].ctx].headers

\* C16 (as claimed): a goroutine that is about to read or write v.routes or
\* v.middlewares holds the mutex.
C16_LockDiscipline ==
    /\ \A u \in Units :
          (units[u].pc \in {"scan", "wrapinit"}
              \/ (units[u].pc = "wrap" /\ units[u].i >= 1)) => mu = u
    /\ reg.pc = "append" => mu = "reg"

\* C17: once ServeHTTP is past the scan it does not hold the mutex: not while
\* it wraps, not while the handler and the middlewares run, not when it
\* answers 404 or returns.
C17_UnlockedInHandler ==
    \A u \in Units : PastUnlock(u) => mu # u

\* a handler has registered a route and is still running, while the other
\* call holds the mutex for its scan
C17_Witness ==
    \E u \in Units : \E v \in Units \ {u} :
        /\ units[u].pc = "registered"
        /\ units[v].pc = "scan" /\ mu = v

\* C19 (as claimed): when the write of the status line fails on a connection,
\* the process goes on.
C19_WriteFailureIsLocal ==
    \A u \in Units :
        (units[u].pc = "close" /\ units[u].err = "fatal") => ~crashed

----------------------------------------------------------------------------
(* The claims about Start. *)

\* C12 (as claimed): Start returns only when listening or accepting fails; a
\* connection whose read fails, whose request line is malformed or whose
\* handler returns an error does not end it.
C12_FailureIsolation ==
    startPc = "returned" => startErr \in {"listen", "accept"}

\* C18 (as claimed): under fair scheduling a goroutine whose ServeHTTP call
\* has returned ends, also when no further connection is accepted.
C18_UnitsTerminate ==
    \A c \in StartConns : (conns[c].pc = "done") ~> (conns[c].pc = "ended")

----------------------------------------------------------------------------
(* The claim about the request body. *)

\* C14 (as claimed): on a request with a body of at least one byte, every ParseJSON or ParseForm
\* call after the first one returns an error.
C14_BodyConsumedOnce ==
    (reqBody.set /\ reqBody.data # <<>>) => \A k \in 2..Len(parses) : parses[k].err # "nil"

----------------------------------------------------------------------------
(* The claim about Static. *)

\* the file parameter of the request of c under the pattern /s/:filepath
FileParam(c) == Split(conns[c].path, "/")[3]

\* the file the request of c resolves to, under the directory of its handler
Resolved(c) == filepathJoin(statics[conns[c].handler], filepathClean(FileParam(c)))

\* the contents of the files below pub
InsideContents == {Files[f] : f \in {f \in DOMAIN Files : f[1] = "pub"}}

\* C13 (as claimed): when a static route has served a request on a connection
\* that accepts every write, a file parameter containing .. and a file that
\* cannot be read both leave a 404 response on the connection, and the body
\* written is never the content of a file outside the directory.
C13_StaticFailuresAre404 ==
    \A c \in Conns :
        (conns[c].pc = "done" /\ conns[c].handler \in DOMAIN statics
            /\ conns[c].ctx.writesLeft = Healthy) =>
            /\ (ContainsDotDot(FileParam(c)) \/ Resolved(c) \notin DOMAIN Files) =>
                  Flatten(conns[c].ctx.wire) \in
                      Framed(<<"HTTP/1.1 ", "4", "0", "4", " ", "Not Found", "\r\n">>,
                             "text/html", NotFoundPage)
            /\ \A k \in 1..Len(conns[c].ctx.wire) :
                  conns[c].ctx.wire[k].site = "body" =>
                      conns[c].ctx.wire[k].bytes \in InsideContents \cup {NotFoundPage}

----------------------------------------------------------------------------
(* The claim about the server with one context. *)

\* C20 (as claimed): in the server of src/vermouth.go:134-322 every goroutine
\* reads its request from the connection that was accepted for it and writes
\* its response to that connection, whatever the interleaving.
C20_OwnConnection ==
    \A k \in Units :
        /\ units[k].readFrom \in {"none", k}
        /\ units[k].wroteTo \subseteq {k}

----------------------------------------------------------------------------
(* The claim about a response method whose collaborator fails. *)

\* the first call on the context was op and returned a collaborator's error
FirstFailed(op) ==
    /\ Len(calls) = 1
    /\ calls[1].op = op
    /\ calls[1].err \in {"encode", "notexist"}

\* C21 (as claimed): when JSON or File, called on a context that has written
\* nothing, returns the error of its collaborator (the encoder, the
\* filesystem), nothing has been written to the connection and the status
\* line is not marked as written.
C21_AllOrNothing ==
    (FirstFailed("JSON") \/ FirstFailed("File")) =>
        ctx.wire = <<>> /\ ~ctx.didWriteHTTP1Header

====
